---- MODULE Spec2Model ----
(***************************************************************************)
(* Model of the SMS group-chat backend (backend/app): the phone-number     *)
(* pool and its assignment to groups (api/groups.py, api/admin.py), the    *)
(* inbound SMS webhook router (api/sms.py) and the command parser and      *)
(* outbound transport (services/sms_service.py).                           *)
(*                                                                         *)
(* The database tables are the state.  Integer keys start at 1 and an      *)
(* absent key (Python None) is 0; text columns that are compared           *)
(* character by character (group names, message bodies) are sequences of   *)
(* one-character strings, opaque text (phone numbers, user names) is a     *)
(* string.                                                                 *)
(*                                                                         *)
(* Three specifications share the variables:                               *)
(*   Spec       the pool: admin handlers and create_group, the latter      *)
(*              split at its database round trips so that requests         *)
(*              interleave;                                                *)
(*   SpecBurst  N concurrent create_group requests against K numbers;      *)
(*   SpecRoute  the webhook over a populated database.                     *)
(***************************************************************************)
EXTENDS Integers, Sequences, FiniteSets, Bags, TLC

VARIABLES
    users,          \* table users: sequence of rows, id = index
    groups,         \* table groups: sequence of rows, id = index
    user_groups,    \* association table user_groups: bag of <<user_id, group_id>>
    phone_numbers,  \* table phone_numbers: function id -> row
    next_phone_id,  \* serial of phone_numbers.id (ids are not reused)
    messages,       \* table messages: sequence of rows in insertion order
    sent,           \* transport calls made by the most recent request
    request,        \* form fields of the webhook request being answered
    response,       \* HTTP response of the most recent request
    session,        \* the create_group requests in flight
    otp_verifications  \* table otp_verifications: sequence of rows, id = index

vars == <<users, groups, user_groups, phone_numbers, next_phone_id,
          messages, sent, request, response, session, otp_verifications>>

----------------------------------------------------------------------------
(* Bounds *)

MaxPhones == 2
MaxGroups == 2
NumSessions == 2
NumRequests == 3
MaxRoutePhones == 1
MaxMessages == 1
MaxFanoutGroups == 1
MaxJoinGroups == 1
MaxJoins == 3

----------------------------------------------------------------------------
(* Values *)

None == 0

AVAILABLE == "AVAILABLE"
ASSIGNED == "ASSIGNED"
INACTIVE == "INACTIVE"

PhoneStatus == {AVAILABLE, ASSIGNED, INACTIVE}

\* what a client may pass as ?status=...; "BOGUS" is not a PhoneStatus value
StatusStrings == PhoneStatus \cup {"BOGUS"}

NoTime == "None"
Now == "now"

PoolNumbers == {"+15551111111", "+15552222222"}

GroupOne == <<"G","r","o","u","p"," ","O","n","e">>
GroupTwo == <<"G","r","o","u","p"," ","T","w","o">>

GroupNames == {GroupOne, GroupTwo}

\* the name given to groups where the name plays no part
PoolGroupNames == {GroupOne}

NoResponse == [status |-> 0, message |-> <<>>]

NoRequest == [From |-> "", Body |-> <<>>, To |-> ""]

HTTPException(code, detail) == [status |-> code, message |-> <<detail>>]

Ok(parts) == [status |-> 200, message |-> parts]

----------------------------------------------------------------------------
(* Pool queries and updates *)

PhoneIds == DOMAIN phone_numbers

\* db.query(PhoneNumber).filter(PhoneNumber.status == AVAILABLE): the rows
\* .first() may return (the query has no ORDER BY)
AvailablePhones_any(pn) == {i \in DOMAIN pn : pn[i].status # ASSIGNED}

AvailablePhones(pn) == {i \in DOMAIN pn : pn[i].status = AVAILABLE}

\* the UPDATE flushed by assign_phone_to_group's commit
ClaimPhone_all(pn, phone_id, group_id) ==
    [i \in DOMAIN pn |->
        IF pn[i].status = AVAILABLE \/ i = phone_id
        THEN [pn[i] EXCEPT !.status = ASSIGNED, !.group_id = group_id,
                           !.assigned_at = Now]
        ELSE pn[i]]

ClaimPhone(pn, phone_id, group_id) ==
    [pn EXCEPT ![phone_id] = [@ EXCEPT !.status = ASSIGNED,
                                       !.group_id = group_id,
                                       !.assigned_at = Now]]

\* the row changes of update_phone_status
SetStatus_keep(row, phone_status) == [row EXCEPT !.status = phone_status]

SetStatus_bind(row, phone_status) ==
    IF phone_status # ASSIGNED
    THEN [row EXCEPT !.status = phone_status, !.group_id = None,
                     !.assigned_at = NoTime]
    ELSE [row EXCEPT !.status = phone_status, !.group_id = 1,
                     !.assigned_at = Now]

SetStatus(row, phone_status) ==
    IF phone_status # ASSIGNED
    THEN [row EXCEPT !.status = phone_status, !.group_id = None,
                     !.assigned_at = NoTime]
    ELSE [row EXCEPT !.status = phone_status]

\* Group.phone_number_rel: the row whose foreign key is the group
\* (uselist=False), 0 when there is none
PhoneOfGroup(g) ==
    IF \E i \in PhoneIds : phone_numbers[i].group_id = g
    THEN CHOOSE i \in PhoneIds : phone_numbers[i].group_id = g
    ELSE None

\* a session with no request in progress: the locals of the handlers
IdleSession == [pc |-> "idle", group_id |-> None, user_id |-> None,
                available_phone |-> None, phone |-> None]

----------------------------------------------------------------------------
(* Admin handlers (api/admin.py) *)

register_phone_number_again(number) ==
    /\ next_phone_id <= MaxPhones
    /\ IF FALSE
       THEN /\ response' = HTTPException(400, "Phone number already registered")
            /\ UNCHANGED <<phone_numbers, next_phone_id>>
       ELSE /\ phone_numbers' =
                  [i \in PhoneIds \cup {next_phone_id} |->
                      IF i = next_phone_id
                      THEN [phone_number |-> number, status |-> AVAILABLE,
                            group_id |-> None, assigned_at |-> NoTime]
                      ELSE phone_numbers[i]]
            /\ next_phone_id' = next_phone_id + 1
            /\ response' = Ok(<<"registered", number>>)
    /\ sent' = <<>>
    /\ request' = NoRequest
    /\ UNCHANGED <<otp_verifications, users, groups, user_groups, messages, session>>

register_phone_number(number) ==
    /\ next_phone_id <= MaxPhones
    /\ IF \E i \in PhoneIds : phone_numbers[i].phone_number = number
       THEN /\ response' = HTTPException(400, "Phone number already registered")
            /\ UNCHANGED <<phone_numbers, next_phone_id>>
       ELSE /\ phone_numbers' =
                  [i \in PhoneIds \cup {next_phone_id} |->
                      IF i = next_phone_id
                      THEN [phone_number |-> number, status |-> AVAILABLE,
                            group_id |-> None, assigned_at |-> NoTime]
                      ELSE phone_numbers[i]]
            /\ next_phone_id' = next_phone_id + 1
            /\ response' = Ok(<<"registered", number>>)
    /\ sent' = <<>>
    /\ request' = NoRequest
    /\ UNCHANGED <<otp_verifications, users, groups, user_groups, messages, session>>

\* delete_phone_number is split at its database round trips: the SELECT and
\* the status test, then the DELETE by primary key flushed by db.commit().
\* The test is made on the row as it was read.
delete_phone_number(s, phone_id) ==
    /\ session[s].pc \in {"idle", "done"}
    /\ IF phone_id \notin PhoneIds
       THEN /\ response' = HTTPException(404, "Phone number not found")
            /\ UNCHANGED session
       ELSE IF phone_numbers[phone_id].status = ASSIGNED
       THEN /\ response' = HTTPException(400, "Cannot delete assigned phone number")
            /\ UNCHANGED session
       ELSE /\ session' = [session EXCEPT ![s] =
                              [IdleSession EXCEPT !.pc = "delete",
                                                  !.phone = phone_id]]
            /\ UNCHANGED response
    /\ sent' = <<>>
    /\ request' = NoRequest
    /\ UNCHANGED <<otp_verifications, users, groups, user_groups, phone_numbers, next_phone_id,
                   messages>>

\* db.delete(phone); db.commit(): DELETE ... WHERE id = :id.  A row that is
\* gone already only draws a warning from the unit of work.
delete_phone_commit(s) ==
    /\ session[s].pc = "delete"
    /\ phone_numbers' = [i \in PhoneIds \ {session[s].phone} |-> phone_numbers[i]]
    /\ response' = Ok(<<"Phone number deleted">>)
    /\ session' = [session EXCEPT ![s].pc = "done"]
    /\ sent' = <<>>
    /\ request' = NoRequest
    /\ UNCHANGED <<otp_verifications, users, groups, user_groups, next_phone_id, messages>>

update_phone_status_only(phone_id, status) ==
    /\ IF phone_id \notin PhoneIds
       THEN /\ response' = HTTPException(404, "Phone number not found")
            /\ UNCHANGED phone_numbers
       ELSE IF status \notin PhoneStatus
       THEN /\ response' = HTTPException(400, "Invalid status value")
            /\ UNCHANGED phone_numbers
       ELSE /\ phone_numbers' =
                  [phone_numbers EXCEPT ![phone_id] = [@ EXCEPT !.status = status]]
            /\ response' = Ok(<<"Phone number status updated to ", status>>)
    /\ sent' = <<>>
    /\ request' = NoRequest
    /\ UNCHANGED <<otp_verifications, users, groups, user_groups, next_phone_id, messages, session>>

update_phone_status(phone_id, status) ==
    /\ IF phone_id \notin PhoneIds
       THEN /\ response' = HTTPException(404, "Phone number not found")
            /\ UNCHANGED phone_numbers
       ELSE IF status \notin PhoneStatus
       THEN /\ response' = HTTPException(400, "Invalid status value")
            /\ UNCHANGED phone_numbers
       ELSE /\ phone_numbers' =
                  [phone_numbers EXCEPT ![phone_id] = SetStatus(@, status)]
            /\ response' = Ok(<<"Phone number status updated to ", status>>)
    /\ sent' = <<>>
    /\ request' = NoRequest
    /\ UNCHANGED <<otp_verifications, users, groups, user_groups, next_phone_id, messages, session>>

----------------------------------------------------------------------------
(* create_group (api/groups.py), split at its database round trips:        *)
(*   insert  db.add(db_group); db.commit(); db.refresh(db_group)           *)
(*   query   the SELECT of assign_phone_to_group                           *)
(*   claim   the attribute writes, db.commit() and the return              *)

create_group_insert(s, name) ==
    /\ session[s].pc \in {"idle", "done"}
    /\ groups' = Append(groups, [name |-> name])
    /\ session' = [session EXCEPT ![s] =
                      [pc |-> "query", group_id |-> Len(groups) + 1,
                       user_id |-> None, available_phone |-> None,
                       phone |-> None]]
    /\ UNCHANGED <<otp_verifications, users, user_groups, phone_numbers, next_phone_id,
                   messages, sent, request, response>>

assign_phone_query(s) ==
    /\ session[s].pc = "query"
    /\ IF AvailablePhones(phone_numbers) = {}
       THEN session' = [session EXCEPT ![s].pc = "claim",
                                       ![s].available_phone = None]
       ELSE \E i \in AvailablePhones(phone_numbers) :
                session' = [session EXCEPT ![s].pc = "claim",
                                           ![s].available_phone = i]
    /\ UNCHANGED <<otp_verifications, users, groups, user_groups, phone_numbers, next_phone_id,
                   messages, sent, request, response>>

assign_phone_claim(s) ==
    /\ session[s].pc = "claim"
    /\ LET p == session[s].available_phone
           g == session[s].group_id
       IN  IF p = None
           THEN \* no number: warning printed, the group is returned
                /\ session' = [session EXCEPT ![s].pc = "done"]
                /\ response' = Ok(<<"group", g>>)
                /\ UNCHANGED phone_numbers
           ELSE IF p \notin PhoneIds
           THEN \* the row was deleted meanwhile: the flush matches no row
                /\ session' = [session EXCEPT ![s].pc = "done"]
                /\ response' = HTTPException(500, "Internal Server Error")
                /\ UNCHANGED phone_numbers
           ELSE /\ phone_numbers' = ClaimPhone(phone_numbers, p, g)
                /\ session' = [session EXCEPT ![s].pc = "done", ![s].phone = p]
                /\ response' = Ok(<<"group", g>>)
    /\ sent' = <<>>
    /\ request' = NoRequest
    /\ UNCHANGED <<otp_verifications, users, groups, user_groups, next_phone_id, messages>>

----------------------------------------------------------------------------
(* Spec: the pool under admin actions and interleaved group creations *)

\* no response is waiting to be returned
Quiescent == request = NoRequest /\ response = NoResponse

\* the response goes back to the caller and the request is over: get_db
\* closes the database session and the handler's locals are gone
close_request ==
    /\ ~Quiescent
    /\ request' = NoRequest
    /\ response' = NoResponse
    /\ sent' = <<>>
    /\ session' = [s \in DOMAIN session |->
                      IF session[s].pc = "done" THEN IdleSession
                                                ELSE session[s]]
    /\ UNCHANGED <<otp_verifications, users, groups, user_groups, phone_numbers, next_phone_id,
                   messages>>

Init ==
    /\ otp_verifications = <<>>
    /\ users = <<>>
    /\ groups = <<>>
    /\ user_groups = EmptyBag
    /\ phone_numbers = <<>>
    /\ next_phone_id = 1
    /\ messages = <<>>
    /\ sent = <<>>
    /\ request = NoRequest
    /\ response = NoResponse
    /\ session = [s \in 1..NumSessions |-> IdleSession]

Next ==
    \/ \E number \in PoolNumbers :
           Quiescent /\ register_phone_number(number)
    \/ \E s \in DOMAIN session, phone_id \in 1..MaxPhones :
           Quiescent /\ delete_phone_number(s, phone_id)
    \/ \E s \in DOMAIN session : Quiescent /\ delete_phone_commit(s)
    \/ \E phone_id \in 1..MaxPhones, status \in StatusStrings :
           Quiescent /\ update_phone_status(phone_id, status)
    \/ \E s \in DOMAIN session, name \in PoolGroupNames :
           /\ Quiescent
           /\ Len(groups) < MaxGroups
           /\ create_group_insert(s, name)
    \/ \E s \in DOMAIN session : Quiescent /\ assign_phone_query(s)
    \/ \E s \in DOMAIN session : Quiescent /\ assign_phone_claim(s)
    \/ close_request

Spec == Init /\ [][Next]_vars

----------------------------------------------------------------------------
(* SpecBurst: NumRequests create_group requests, one per session, issued   *)
(* against a pool of K registered AVAILABLE numbers and nothing else       *)
(* running.                                                                *)

\* the pools K successful registrations leave behind
RegisteredPools(K) ==
    {pn \in [1..K -> [phone_number : PoolNumbers, status : {AVAILABLE},
                      group_id : {None}, assigned_at : {NoTime}]] :
        \A i, j \in 1..K : i # j => pn[i].phone_number # pn[j].phone_number}

InitBurst ==
    /\ otp_verifications = <<>>
    /\ users = <<>>
    /\ groups = <<>>
    /\ user_groups = EmptyBag
    /\ \E K \in 1..MaxPhones :
           /\ phone_numbers \in RegisteredPools(K)
           /\ next_phone_id = K + 1
    /\ messages = <<>>
    /\ sent = <<>>
    /\ request = NoRequest
    /\ response = NoResponse
    /\ session = [s \in 1..NumRequests |-> IdleSession]

NextBurst ==
    \/ \E s \in DOMAIN session, name \in PoolGroupNames :
           session[s].pc = "idle" /\ create_group_insert(s, name)
    \/ \E s \in DOMAIN session : assign_phone_query(s)
    \/ \E s \in DOMAIN session : assign_phone_claim(s)

SpecBurst == InitBurst /\ [][NextBurst]_vars

----------------------------------------------------------------------------
(* Properties of the pool *)

BoundGroups == {g \in 1..Len(groups) : PhoneOfGroup(g) # None}

AssignedPhones == {i \in PhoneIds : phone_numbers[i].status = ASSIGNED}

\* C1: at most one PhoneNumber row with status ASSIGNED carries a given
\* group_id, in every state reachable by registrations, group creations,
\* admin status updates and deletions.
C1_OneNumberPerGroup ==
    \A i, j \in AssignedPhones :
        (phone_numbers[i].group_id # None
            /\ phone_numbers[i].group_id = phone_numbers[j].group_id) => i = j

\* two numbers are ASSIGNED at once, each to a group of its own
C1_Witness ==
    \E i, j \in AssignedPhones :
        /\ i # j
        /\ phone_numbers[i].group_id # None
        /\ phone_numbers[j].group_id # None
        /\ phone_numbers[i].group_id # phone_numbers[j].group_id

\* C2: two concurrent create_group requests never both receive the same
\* phone number from assign_phone_to_group.
C2_DistinctNumbersReceived ==
    \A s, t \in DOMAIN session :
        (s # t /\ session[s].phone # None) => session[s].phone # session[t].phone

\* C3: once N concurrent creations against K < N AVAILABLE numbers have all
\* finished, exactly K groups have a bound number, N-K have none and K
\* distinct numbers are ASSIGNED.
C3_BurstOutcome ==
    LET K == Cardinality(PhoneIds)
        N == Cardinality(DOMAIN session)
    IN  ((\A s \in DOMAIN session : session[s].pc = "done") /\ K < N) =>
            /\ Cardinality(BoundGroups) = K
            /\ Cardinality((1..Len(groups)) \ BoundGroups) = N - K
            /\ Cardinality(AssignedPhones) = K

\* C4: for every PhoneNumber row, group_id is set iff status is ASSIGNED and
\* assigned_at is set iff status is ASSIGNED.
C4_GroupIdIffAssigned ==
    \A i \in PhoneIds :
        /\ (phone_numbers[i].group_id # None) <=> (phone_numbers[i].status = ASSIGNED)
        /\ (phone_numbers[i].assigned_at # NoTime) <=> (phone_numbers[i].status = ASSIGNED)

----------------------------------------------------------------------------
(* Text: Python str operations and the regular expressions of              *)
(* parse_sms_command (services/sms_service.py)                             *)

UpperCase == <<"A","B","C","D","E","F","G","H","I","J","K","L","M",
               "N","O","P","Q","R","S","T","U","V","W","X","Y","Z">>
LowerCase == <<"a","b","c","d","e","f","g","h","i","j","k","l","m",
               "n","o","p","q","r","s","t","u","v","w","x","y","z">>

\* [A-Za-z]
IsLetter(c) == \E k \in 1..26 : c = UpperCase[k] \/ c = LowerCase[k]

\* \s, and the characters str.strip() removes
IsSpace(c) == c \in {" ", "\t", "\n", "\r", "\f"}

\* str.lower()
LowerChar(c) ==
    IF \E k \in 1..26 : c = UpperCase[k]
    THEN LowerCase[CHOOSE k \in 1..26 : c = UpperCase[k]]
    ELSE c

lower(str) == [k \in 1..Len(str) |-> LowerChar(str[k])]

\* str.strip()
strip(str) ==
    LET keep == {k \in 1..Len(str) : ~IsSpace(str[k])}
    IN  IF keep = {} THEN <<>>
        ELSE LET first == CHOOSE k \in keep : \A m \in keep : k <= m
                 last  == CHOOSE k \in keep : \A m \in keep : m <= k
             IN  SubSeq(str, first, last)

\* length of the run of whitespace that starts at index k
SpaceRun(str, k) ==
    CHOOSE n \in 0..Len(str) :
        /\ \A m \in k..(k + n - 1) : m <= Len(str) /\ IsSpace(str[m])
        /\ (k + n > Len(str) \/ ~IsSpace(str[k + n]))

\* (.+)$ from index k: at least one character, none of them a newline
DotPlusToEnd(str, k) ==
    /\ k <= Len(str)
    /\ \A m \in k..Len(str) : str[m] # "\n"

NoName == <<>>

\* re.match(r'^@"([^"]+)"\s+(.+)$', s): the groups, or NoMatch
NoMatch == [matched |-> FALSE, g1 |-> <<>>, g2 |-> <<>>]

QuotedMatch(str) ==
    IF Len(str) >= 3 /\ str[1] = "@" /\ str[2] = "\""
         /\ \E q \in 4..Len(str) : str[q] = "\""
    THEN LET q == CHOOSE q \in 3..Len(str) :
                      str[q] = "\"" /\ \A m \in 3..(q - 1) : str[m] # "\""
             w == SpaceRun(str, q + 1)
         IN  IF q >= 4 /\ w >= 1 /\ DotPlusToEnd(str, q + 1 + w)
             THEN [matched |-> TRUE, g1 |-> SubSeq(str, 3, q - 1),
                   g2 |-> SubSeq(str, q + 1 + w, Len(str))]
             ELSE NoMatch
    ELSE NoMatch

\* the ends e of group 1 for which
\* r'^@([A-Za-z][A-Za-z\s]*?)\s+([a-zA-Z].+)$' matches with group 1 = s[2..e]
UnquotedEnds(str) ==
    {e \in 2..Len(str) :
        /\ \A m \in 3..e : IsLetter(str[m]) \/ IsSpace(str[m])
        /\ LET w == SpaceRun(str, e + 1)
           IN  /\ w >= 1
               /\ e + w + 1 <= Len(str)
               /\ IsLetter(str[e + w + 1])
               /\ DotPlusToEnd(str, e + w + 2)}

UnquotedMatch_greedy(str) ==
    IF Len(str) >= 2 /\ str[1] = "@" /\ IsLetter(str[2]) /\ UnquotedEnds(str) # {}
    THEN LET e == CHOOSE e \in UnquotedEnds(str) :
                      \A m \in UnquotedEnds(str) : m <= e
             w == SpaceRun(str, e + 1)
         IN  [matched |-> TRUE, g1 |-> SubSeq(str, 2, e),
              g2 |-> SubSeq(str, e + w + 1, Len(str))]
    ELSE NoMatch

\* the non-greedy group 1 takes the smallest end that lets the rest match
UnquotedMatch(str) ==
    IF Len(str) >= 2 /\ str[1] = "@" /\ IsLetter(str[2]) /\ UnquotedEnds(str) # {}
    THEN LET e == CHOOSE e \in UnquotedEnds(str) :
                      \A m \in UnquotedEnds(str) : e <= m
             w == SpaceRun(str, e + 1)
         IN  [matched |-> TRUE, g1 |-> SubSeq(str, 2, e),
              g2 |-> SubSeq(str, e + w + 1, Len(str))]
    ELSE NoMatch

\* parse_sms_command(body) -> (group name or None, message); None is NoName
parse_sms_command_stripped(body) ==
    LET quoted_match == QuotedMatch(strip(body))
        unquoted_match == UnquotedMatch(strip(body))
    IN  IF quoted_match.matched
        THEN [group_name |-> quoted_match.g1, message |-> quoted_match.g2]
        ELSE IF unquoted_match.matched
        THEN [group_name |-> strip(unquoted_match.g1),
              message |-> unquoted_match.g2]
        ELSE [group_name |-> NoName, message |-> strip(body)]

parse_sms_command(body) ==
    LET quoted_match == QuotedMatch(strip(body))
        unquoted_match == UnquotedMatch(strip(body))
    IN  IF quoted_match.matched
        THEN [group_name |-> quoted_match.g1, message |-> quoted_match.g2]
        ELSE IF unquoted_match.matched
        THEN [group_name |-> strip(unquoted_match.g1),
              message |-> unquoted_match.g2]
        ELSE [group_name |-> NoName, message |-> body]

----------------------------------------------------------------------------
(* Outbound transport (services/sms_service.py) *)

\* os.getenv('TWILIO_PHONE_NUMBER'), the process-wide default sender
twilio_phone_number == "+15550000000"

NoNumber == ""

\* the transport calls of send_welcome_sms and send_welcome_sms_with_phone
send_welcome_sms(to_number, group_name) ==
    [to |-> to_number,
     from_ |-> twilio_phone_number,
     body |-> <<"Welcome to the '", group_name,
                "' chat! Reply to this number to send messages to the group.">>]

send_welcome_sms_with_phone_default(to_number, group_name, group_phone_number) ==
    [to |-> to_number,
     from_ |-> twilio_phone_number,
     body |-> <<"Welcome to the '", group_name,
                "' chat! Reply to this number to send messages to the group.">>]

send_welcome_sms_with_phone(to_number, group_name, group_phone_number) ==
    [to |-> to_number,
     from_ |-> group_phone_number,
     body |-> <<"Welcome to the '", group_name,
                "' chat! Reply to this number to send messages to the group.">>]

\* the transport call of send_group_message: body and sender
send_group_message_default(to_number, from_name, content, group_name, group_phone_number) ==
    [to |-> to_number,
     from_ |-> twilio_phone_number,
     body |-> <<"[", group_name, "] ", from_name, ": ", content>>]

send_group_message(to_number, from_name, content, group_name, group_phone_number) ==
    [to |-> to_number,
     from_ |-> IF group_phone_number # NoNumber THEN group_phone_number
               ELSE twilio_phone_number,
     body |-> <<"[", group_name, "] ", from_name, ": ", content>>]

----------------------------------------------------------------------------
(* Message bodies in use *)

BodyPlain == <<"H","e","l","l","o","!">>
BodyQuotedLower == <<"@","\"","g","r","o","u","p"," ","t","w","o","\""," ","y","o">>
BodyUnquoted == <<"@","G","r","o","u","p"," ","O","n","e"," ","H","e","l","l","o",
                  " ","G","r","o","u","p"," ","O","n","e","!">>
BodyBareAt == <<"@","G","r","o","u","p">>

Bodies == {BodyPlain, BodyQuotedLower, BodyUnquoted, BodyBareAt}

\* parse_sms_command and str.lower() are pure: their values on the bodies and
\* names in use, computed once
Parsed == [b \in Bodies |-> parse_sms_command(b)]

Lowered ==
    [str \in GroupNames \cup {Parsed[b].group_name : b \in Bodies} |-> lower(str)]

----------------------------------------------------------------------------
(* Inbound webhook (api/sms.py) *)

\* db.query(User).filter(User.phone_number == From).first(); the column is
\* unique
UserByPhone_default(From) ==
    IF \E u \in 1..Len(users) : users[u].phone_number = From
    THEN CHOOSE u \in 1..Len(users) : users[u].phone_number = From
    ELSE IF Len(users) > 0 THEN 1 ELSE None

UserByPhone(From) ==
    IF \E u \in 1..Len(users) : users[u].phone_number = From
    THEN CHOOSE u \in 1..Len(users) : users[u].phone_number = From
    ELSE None

\* db.query(PhoneNumber).filter(PhoneNumber.phone_number == To).first(); the
\* column is unique
PhoneByNumber(To) ==
    IF \E i \in PhoneIds : phone_numbers[i].phone_number = To
    THEN CHOOSE i \in PhoneIds : phone_numbers[i].phone_number = To
    ELSE None

\* db.query(Group).filter(Group.id == group_id).first()
GroupById(group_id) == IF group_id \in 1..Len(groups) THEN group_id ELSE None

\* the relationship collections over user_groups
GroupsOfUser(u) == {g \in 1..Len(groups) : BagIn(<<u, g>>, user_groups)}

UsersOfGroup(g) == {u \in 1..Len(users) : BagIn(<<u, g>>, user_groups)}

\* lines 26-45: routing by the destination number.  target_group is a group
\* id or None; rejected means the not-a-member reply was returned.
RouteByNumber_nocheck(user, To) ==
    LET phone_record == PhoneByNumber(To)
    IN  IF /\ phone_record # None
           /\ phone_numbers[phone_record].status = ASSIGNED
           /\ phone_numbers[phone_record].group_id # None
        THEN LET target_group == GroupById(phone_numbers[phone_record].group_id)
             IN  [rejected |-> FALSE, target_group |-> target_group,
                  group_phone_for_sending |-> To]
        ELSE [rejected |-> FALSE, target_group |-> None,
              group_phone_for_sending |-> NoNumber]

RouteByNumber_never(user, To) ==
    [rejected |-> FALSE, target_group |-> None,
     group_phone_for_sending |-> NoNumber]

RouteByNumber(user, To) ==
    LET phone_record == PhoneByNumber(To)
    IN  IF /\ phone_record # None
           /\ phone_numbers[phone_record].status = ASSIGNED
           /\ phone_numbers[phone_record].group_id # None
        THEN LET target_group == GroupById(phone_numbers[phone_record].group_id)
             IN  IF target_group # None /\ user \notin UsersOfGroup(target_group)
                 THEN [rejected |-> TRUE, target_group |-> target_group,
                       group_phone_for_sending |-> NoNumber]
                 ELSE [rejected |-> FALSE, target_group |-> target_group,
                       group_phone_for_sending |-> To]
        ELSE [rejected |-> FALSE, target_group |-> None,
              group_phone_for_sending |-> NoNumber]

\* lines 48-72: the fallback.  The result is the set of outcomes the loop
\* over user.groups can produce (the collection has no defined order):
\* target_group None means the reply was returned.
RouteFallback_misroute(user, Body) ==
    LET parsed == Parsed[Body]
        group_name == parsed.group_name
        matches == {g \in GroupsOfUser(user) :
                        Lowered[groups[g].name] = Lowered[group_name]}
    IN  IF group_name # NoName /\ matches # {}
        THEN {[target_group |-> g, content |-> parsed.message, reply |-> <<>>] :
                 g \in matches}
        ELSE IF Cardinality(GroupsOfUser(user)) = 1
        THEN {[target_group |-> g, content |-> Body, reply |-> <<>>] :
                 g \in GroupsOfUser(user)}
        ELSE {[target_group |-> None, content |-> Body,
               reply |-> <<"Multiple groups detected. Prefix message with @\"Group Name\" to specify destination.">>]}

RouteFallback_onlymulti(user, Body) ==
    LET parsed == Parsed[Body]
        group_name == parsed.group_name
        matches == {g \in GroupsOfUser(user) :
                        Lowered[groups[g].name] = Lowered[group_name]}
    IN  IF group_name # NoName
        THEN IF matches # {}
             THEN {[target_group |-> g, content |-> parsed.message,
                    reply |-> <<>>] : g \in matches}
             ELSE {[target_group |-> None, content |-> Body,
                    reply |-> <<"Group '", group_name,
                                "' not found or you are not a member">>]}
        ELSE {[target_group |-> None, content |-> Body,
               reply |-> <<"Multiple groups detected. Prefix message with @\"Group Name\" to specify destination.">>]}

RouteFallback(user, Body) ==
    LET parsed == Parsed[Body]
        group_name == parsed.group_name
        matches == {g \in GroupsOfUser(user) :
                        Lowered[groups[g].name] = Lowered[group_name]}
    IN  IF group_name # NoName
        THEN IF matches # {}
             THEN {[target_group |-> g, content |-> parsed.message,
                    reply |-> <<>>] : g \in matches}
             ELSE {[target_group |-> None, content |-> Body,
                    reply |-> <<"Group '", group_name,
                                "' not found or you are not a member">>]}
        ELSE IF Cardinality(GroupsOfUser(user)) = 1
        THEN {[target_group |-> g, content |-> Body, reply |-> <<>>] :
                 g \in GroupsOfUser(user)}
        ELSE {[target_group |-> None, content |-> Body,
               reply |-> <<"Multiple groups detected. Prefix message with @\"Group Name\" to specify destination.">>]}

\* the orders in which a loop may visit a collection without ORDER BY
Orders(S) ==
    {o \in [1..Cardinality(S) -> S] :
        \A a, b \in 1..Cardinality(S) : a # b => o[a] # o[b]}

\* the loop over the group's users (sms.py:88-96, groups.py:191-196): sent
\* lists the transport calls in order, each with whether it raised.  A
\* transport call that raises ends the loop and the request (nothing catches
\* it); otherwise the handler returns success.
Fanout_author(user, target_group, content, group_phone_number, success) ==
    LET recipients == UsersOfGroup(target_group)
        call(member) ==
            send_group_message(users[member].phone_number, users[user].name,
                               content, groups[target_group].name,
                               group_phone_number)
    IN  \E order \in Orders(recipients) :
            /\ sent' = [k \in 1..Len(order) |->
                          [call |-> call(order[k]), raised |-> FALSE]]
            /\ response' = success

Fanout(user, target_group, content, group_phone_number, success) ==
    LET recipients == UsersOfGroup(target_group) \ {user}
        call(member) ==
            send_group_message(users[member].phone_number, users[user].name,
                               content, groups[target_group].name,
                               group_phone_number)
    IN  \E order \in Orders(recipients) :
            \/ /\ sent' = [k \in 1..Len(order) |->
                              [call |-> call(order[k]), raised |-> FALSE]]
               /\ response' = success
            \/ \E n \in 1..Len(order) :
                   /\ sent' = [k \in 1..n |->
                                  [call |-> call(order[k]), raised |-> (k = n)]]
                   /\ response' = HTTPException(500, "Internal Server Error")

\* lines 77-98: store the message (db.commit() at line 81), then fan out
Deliver_rollback(user, target_group, content, group_phone) ==
    LET group_phone_for_sending ==
            IF group_phone = NoNumber /\ PhoneOfGroup(target_group) # None
            THEN phone_numbers[PhoneOfGroup(target_group)].phone_number
            ELSE group_phone
    IN  /\ Fanout(user, target_group, content, group_phone_for_sending,
                  Ok(<<"Message sent to ", groups[target_group].name, " group">>))
        /\ messages' = IF response'.status = 200
                       THEN Append(messages, [content |-> content,
                                              user_id |-> user,
                                              group_id |-> target_group])
                       ELSE messages

Deliver(user, target_group, content, group_phone) ==
    /\ messages' = Append(messages, [content |-> content, user_id |-> user,
                                     group_id |-> target_group])
    /\ LET group_phone_for_sending ==
               IF group_phone = NoNumber /\ PhoneOfGroup(target_group) # None
               THEN phone_numbers[PhoneOfGroup(target_group)].phone_number
               ELSE group_phone
       IN  Fanout(user, target_group, content, group_phone_for_sending,
                  Ok(<<"Message sent to ", groups[target_group].name, " group">>))

handle_sms_webhook(From, Body, To) ==
    LET user == UserByPhone(From)
    IN  /\ IF user = None
           THEN /\ response' = Ok(<<"User not registered">>)
                /\ sent' = <<>>
                /\ UNCHANGED messages
           ELSE LET by_number == RouteByNumber(user, To)
                IN  IF by_number.rejected
                    THEN /\ response' = Ok(<<"You are not a member of the '",
                                             groups[by_number.target_group].name,
                                             "' group">>)
                         /\ sent' = <<>>
                         /\ UNCHANGED messages
                    ELSE IF by_number.target_group # None
                    THEN Deliver(user, by_number.target_group, Body,
                                 by_number.group_phone_for_sending)
                    ELSE \E r \in RouteFallback(user, Body) :
                             IF r.target_group = None
                             THEN /\ response' = Ok(r.reply)
                                  /\ sent' = <<>>
                                  /\ UNCHANGED messages
                             ELSE Deliver(user, r.target_group, r.content,
                                          by_number.group_phone_for_sending)
        /\ request' = [From |-> From, Body |-> Body, To |-> To]
        /\ UNCHANGED <<otp_verifications, users, groups, user_groups, phone_numbers,
                       next_phone_id, session>>

\* send_message without the membership test of line 176
send_message_open(group_id, user_id, content) ==
    /\ IF GroupById(group_id) = None
       THEN /\ response' = HTTPException(404, "Group not found")
            /\ sent' = <<>>
            /\ UNCHANGED messages
       ELSE IF user_id \notin 1..Len(users)
       THEN /\ response' = HTTPException(404, "User not found")
            /\ sent' = <<>>
            /\ UNCHANGED messages
       ELSE /\ messages' = Append(messages, [content |-> content,
                                             user_id |-> user_id,
                                             group_id |-> group_id])
            /\ LET group_phone ==
                       IF PhoneOfGroup(group_id) # None
                       THEN phone_numbers[PhoneOfGroup(group_id)].phone_number
                       ELSE NoNumber
               IN  Fanout(user_id, group_id, content, group_phone,
                          Ok(<<"MessageResponse", content, users[user_id].name>>))
    /\ request' = NoRequest
    /\ UNCHANGED <<otp_verifications, users, groups, user_groups,
                   phone_numbers, next_phone_id, session>>

\* send_message (api/groups.py:164-206), the web endpoint
send_message(group_id, user_id, content) ==
    /\ IF GroupById(group_id) = None
       THEN /\ response' = HTTPException(404, "Group not found")
            /\ sent' = <<>>
            /\ UNCHANGED messages
       ELSE IF user_id \notin 1..Len(users)
       THEN /\ response' = HTTPException(404, "User not found")
            /\ sent' = <<>>
            /\ UNCHANGED messages
       ELSE IF user_id \notin UsersOfGroup(group_id)
       THEN /\ response' = HTTPException(403, "User not in group")
            /\ sent' = <<>>
            /\ UNCHANGED messages
       ELSE /\ messages' = Append(messages, [content |-> content,
                                             user_id |-> user_id,
                                             group_id |-> group_id])
            /\ LET group_phone ==
                       IF PhoneOfGroup(group_id) # None
                       THEN phone_numbers[PhoneOfGroup(group_id)].phone_number
                       ELSE NoNumber
               IN  Fanout(user_id, group_id, content, group_phone,
                          Ok(<<"MessageResponse", content, users[user_id].name>>))
    /\ request' = NoRequest
    /\ UNCHANGED <<otp_verifications, users, groups, user_groups, phone_numbers, next_phone_id,
                   session>>

----------------------------------------------------------------------------
(* join_group and leave_group (api/groups.py).  join_group is split at the *)
(* load of group.users: the membership test reads the collection, the      *)
(* INSERT into user_groups is flushed by the commit that follows.          *)

\* user_groups with one more row for (user_id, group_id)
AddMember(ug, user_id, group_id) == ug (+) SetToBag({<<user_id, group_id>>})

\* user_groups after DELETE ... WHERE user_id = :u AND group_id = :g
RemoveMember(ug, user_id, group_id) ==
    [r \in DOMAIN ug \ {<<user_id, group_id>>} |-> ug[r]]

\* lines 89-98: the lookups and the membership test
join_group_check_lenient(s, group_id, user_id) ==
    /\ session[s].pc \in {"idle", "done"}
    /\ IF GroupById(group_id) = None
       THEN /\ response' = HTTPException(404, "Group not found")
            /\ UNCHANGED session
       ELSE IF user_id \notin 1..Len(users)
       THEN /\ response' = HTTPException(404, "User not found")
            /\ UNCHANGED session
       ELSE /\ session' = [session EXCEPT ![s] =
                              [IdleSession EXCEPT !.pc = "append",
                                                  !.group_id = group_id,
                                                  !.user_id = user_id]]
            /\ UNCHANGED response
    /\ sent' = <<>>
    /\ request' = NoRequest
    /\ UNCHANGED <<otp_verifications, users, groups, user_groups, phone_numbers, next_phone_id,
                   messages>>

join_group_check(s, group_id, user_id) ==
    /\ session[s].pc \in {"idle", "done"}
    /\ IF GroupById(group_id) = None
       THEN /\ response' = HTTPException(404, "Group not found")
            /\ UNCHANGED session
       ELSE IF user_id \notin 1..Len(users)
       THEN /\ response' = HTTPException(404, "User not found")
            /\ UNCHANGED session
       ELSE IF user_id \in UsersOfGroup(group_id)
       THEN /\ response' = HTTPException(400, "User already in group")
            /\ UNCHANGED session
       ELSE /\ session' = [session EXCEPT ![s] =
                              [IdleSession EXCEPT !.pc = "append",
                                                  !.group_id = group_id,
                                                  !.user_id = user_id]]
            /\ UNCHANGED response
    /\ sent' = <<>>
    /\ request' = NoRequest
    /\ UNCHANGED <<otp_verifications, users, groups, user_groups, phone_numbers, next_phone_id,
                   messages>>

\* lines 100-121: the row, the welcome Message, the welcome SMS and the
\* reply.  The transport call may raise after both commits.
join_group_append(s) ==
    /\ session[s].pc = "append"
    /\ LET g == session[s].group_id
           u == session[s].user_id
           call == IF PhoneOfGroup(g) # None
                   THEN send_welcome_sms_with_phone(
                            users[u].phone_number, groups[g].name,
                            phone_numbers[PhoneOfGroup(g)].phone_number)
                   ELSE send_welcome_sms(users[u].phone_number, groups[g].name)
       IN  /\ user_groups' = AddMember(user_groups, u, g)
           /\ messages' = Append(messages,
                              [content |-> <<users[u].name, " joined the group!">>,
                               user_id |-> u, group_id |-> g])
           /\ \/ /\ sent' = <<[call |-> call, raised |-> FALSE]>>
                 /\ response' = Ok(<<"User ", users[u].name, " joined group ",
                                     groups[g].name>>)
              \/ /\ sent' = <<[call |-> call, raised |-> TRUE]>>
                 /\ response' = HTTPException(500, "Internal Server Error")
    /\ session' = [session EXCEPT ![s].pc = "done"]
    /\ request' = NoRequest
    /\ UNCHANGED <<otp_verifications, users, groups, phone_numbers, next_phone_id>>

\* leave_group (lines 124-140).  When user_groups holds the pair more than
\* once the DELETE matches more rows than the one the unit of work expects:
\* depending on the driver's row count support the commit goes through or
\* raises StaleDataError and rolls back.
leave_group_purge(group_id, user_id) ==
    /\ IF GroupById(group_id) = None
       THEN /\ response' = HTTPException(404, "Group not found")
            /\ UNCHANGED <<user_groups, messages>>
       ELSE IF user_id \notin 1..Len(users)
       THEN /\ response' = HTTPException(404, "User not found")
            /\ UNCHANGED <<user_groups, messages>>
       ELSE IF user_id \notin UsersOfGroup(group_id)
       THEN /\ response' = HTTPException(400, "User not in group")
            /\ UNCHANGED <<user_groups, messages>>
       ELSE \/ /\ user_groups' = RemoveMember(user_groups, user_id, group_id)
               /\ messages' = SelectSeq(messages,
                                 LAMBDA m : ~(m.user_id = user_id
                                              /\ m.group_id = group_id))
               /\ response' = Ok(<<"User ", users[user_id].name, " left group ",
                                   groups[group_id].name>>)
            \/ /\ CopiesIn(<<user_id, group_id>>, user_groups) > 1
               /\ response' = HTTPException(500, "Internal Server Error")
               /\ UNCHANGED <<user_groups, messages>>
    /\ sent' = <<>>
    /\ request' = NoRequest
    /\ UNCHANGED <<otp_verifications, users, groups, phone_numbers, next_phone_id, session>>

leave_group(group_id, user_id) ==
    /\ IF GroupById(group_id) = None
       THEN /\ response' = HTTPException(404, "Group not found")
            /\ UNCHANGED user_groups
       ELSE IF user_id \notin 1..Len(users)
       THEN /\ response' = HTTPException(404, "User not found")
            /\ UNCHANGED user_groups
       ELSE IF user_id \notin UsersOfGroup(group_id)
       THEN /\ response' = HTTPException(400, "User not in group")
            /\ UNCHANGED user_groups
       ELSE \/ /\ user_groups' = RemoveMember(user_groups, user_id, group_id)
               /\ response' = Ok(<<"User ", users[user_id].name, " left group ",
                                   groups[group_id].name>>)
            \/ /\ CopiesIn(<<user_id, group_id>>, user_groups) > 1
               /\ response' = HTTPException(500, "Internal Server Error")
               /\ UNCHANGED user_groups
    /\ sent' = <<>>
    /\ request' = NoRequest
    /\ UNCHANGED <<otp_verifications, users, groups, phone_numbers, next_phone_id, messages,
                   session>>

----------------------------------------------------------------------------
(* SpecRoute: webhook requests against a populated database.  Users,       *)
(* groups and memberships are as a seeding run leaves them                 *)
(* (seed_demo_data.py inserts memberships without welcome messages), the   *)
(* pool is in any state the handlers of Spec can leave it in, and the      *)
(* message table starts empty.                                             *)

Alice == [name |-> "Alice", phone_number |-> "+15550010001"]
Bob == [name |-> "Bob", phone_number |-> "+15550010002"]

\* senders: a registered user and a number nobody registered
Froms == {Alice.phone_number, "+1000000000"}

Tos == PoolNumbers \cup {"+1234567890"}

\* the numbers in the order they were registered
PoolNumberSeq == <<"+15551111111", "+15552222222">>

\* the rows the handlers of Spec can leave for the i-th number once G groups
\* exist
PoolRows(i, G) ==
    [phone_number : {PoolNumberSeq[i]}, status : {AVAILABLE, INACTIVE},
     group_id : {None}, assigned_at : {NoTime}]
    \cup [phone_number : {PoolNumberSeq[i]}, status : {ASSIGNED},
          group_id : 1..G, assigned_at : {Now}]
    \cup [phone_number : {PoolNumberSeq[i]}, status : {ASSIGNED},
          group_id : {None}, assigned_at : {NoTime}]

Pools(K, G) ==
    {pn \in [1..K -> UNION {PoolRows(i, G) : i \in 1..K}] :
        /\ \A i \in 1..K : pn[i] \in PoolRows(i, G)
        /\ \A i, j \in 1..K : i # j =>
               (pn[i].group_id # None => pn[i].group_id # pn[j].group_id)}

InitRoute ==
    /\ otp_verifications = <<>>
    /\ users = <<Alice, Bob>>
    /\ \E G \in 0..MaxGroups :
           /\ groups \in [1..G -> [name : GroupNames]]
           /\ \E members \in SUBSET ((1..2) \X (1..G)) :
                  user_groups = SetToBag(members)
           /\ \E K \in 0..MaxRoutePhones :
                  /\ K <= Len(PoolNumberSeq)
                  /\ phone_numbers \in Pools(K, G)
                  /\ next_phone_id = K + 1
    /\ messages = <<>>
    /\ sent = <<>>
    /\ request = NoRequest
    /\ response = NoResponse
    /\ session = <<>>

NextRoute ==
    \/ \E From \in Froms, Body \in Bodies, To \in Tos :
           /\ Quiescent
           /\ Len(messages) < MaxMessages
           /\ handle_sms_webhook(From, Body, To)
    \/ close_request

SpecRoute == InitRoute /\ [][NextRoute]_vars

----------------------------------------------------------------------------
(* SpecFanout: deliveries, by webhook and by the web endpoint, to groups   *)
(* of up to three users.                                                   *)

Carol == [name |-> "Carol", phone_number |-> "+15550010003"]

\* what the web client posts as message.content
Contents == {BodyPlain}

InitFanout ==
    /\ otp_verifications = <<>>
    /\ users = <<Alice, Bob, Carol>>
    /\ \E G \in 1..MaxFanoutGroups :
           /\ groups \in [1..G -> [name : GroupNames]]
           /\ \E members \in SUBSET ((1..3) \X (1..G)) :
                  user_groups = SetToBag(members)
           /\ \E K \in 0..MaxRoutePhones :
                  /\ K <= Len(PoolNumberSeq)
                  /\ phone_numbers \in Pools(K, G)
                  /\ next_phone_id = K + 1
    /\ messages = <<>>
    /\ sent = <<>>
    /\ request = NoRequest
    /\ response = NoResponse
    /\ session = <<>>

NextFanout ==
    \/ \E From \in Froms, Body \in Bodies, To \in Tos :
           /\ Quiescent
           /\ Len(messages) < MaxMessages
           /\ handle_sms_webhook(From, Body, To)
    \/ \E group_id \in 1..(MaxFanoutGroups + 1), user_id \in 1..4,
          content \in Contents :
           /\ Quiescent
           /\ Len(messages) < MaxMessages
           /\ send_message(group_id, user_id, content)
    \/ close_request

SpecFanout == InitFanout /\ [][NextFanout]_vars

----------------------------------------------------------------------------
(* SpecJoin: join and leave requests from NumSessions concurrent sessions  *)
(* against groups that have no member yet.  SpecRejoin is the same with    *)
(* one request at a time.                                                  *)

\* pools in which every registered number has been assigned to a group
JoinPools(G) ==
    UNION {{pn \in Pools(K, G) :
               \A i \in 1..K : pn[i].group_id # None} :
           K \in 0..(IF G < Len(PoolNumberSeq) THEN G ELSE Len(PoolNumberSeq))}

\* join requests that have passed the membership test and not yet committed
Joining == {s \in DOMAIN session : session[s].pc = "append"}

InitJoin ==
    /\ otp_verifications = <<>>
    /\ users = <<Alice, Bob>>
    /\ \E G \in 1..MaxJoinGroups :
           /\ groups = [g \in 1..G |-> [name |-> GroupOne]]
           /\ phone_numbers \in JoinPools(G)
           /\ next_phone_id = Len(phone_numbers) + 1
    /\ user_groups = EmptyBag
    /\ messages = <<>>
    /\ sent = <<>>
    /\ request = NoRequest
    /\ response = NoResponse
    /\ session = [s \in 1..NumSessions |-> IdleSession]

NextJoin ==
    \/ \E s \in DOMAIN session, group_id \in 1..(MaxJoinGroups + 1),
          user_id \in 1..3 :
           /\ Quiescent
           /\ Len(messages) + Cardinality(Joining) < MaxJoins
           /\ join_group_check(s, group_id, user_id)
    \/ \E s \in DOMAIN session : Quiescent /\ join_group_append(s)
    \/ \E group_id \in 1..(MaxJoinGroups + 1), user_id \in 1..3 :
           Quiescent /\ leave_group(group_id, user_id)
    \/ close_request

SpecJoin == InitJoin /\ [][NextJoin]_vars

NextRejoin ==
    \/ \E s \in DOMAIN session, group_id \in 1..(MaxJoinGroups + 1),
          user_id \in 1..3 :
           /\ Quiescent
           /\ Joining = {}
           /\ Len(messages) < MaxJoins
           /\ join_group_check(s, group_id, user_id)
    \/ \E s \in DOMAIN session : Quiescent /\ join_group_append(s)
    \/ \E group_id \in 1..(MaxJoinGroups + 1), user_id \in 1..3 :
           Quiescent /\ Joining = {} /\ leave_group(group_id, user_id)
    \/ close_request

SpecRejoin == InitJoin /\ [][NextRejoin]_vars

----------------------------------------------------------------------------
(* Properties of the webhook.  The conditions of the claims are stated on  *)
(* the tables directly.                                                    *)

HelloGroupOne == <<"H","e","l","l","o"," ","G","r","o","u","p"," ","O","n","e","!">>

IsMemberOf(u, g) == CopiesIn(<<u, g>>, user_groups) > 0

MembershipsOf(u) == {g \in 1..Len(groups) : IsMemberOf(u, g)}

\* the groups a destination number is ASSIGNED and bound to
BoundTo(To) ==
    {g \in 1..Len(groups) :
        \E i \in PhoneIds : /\ phone_numbers[i].phone_number = To
                            /\ phone_numbers[i].status = ASSIGNED
                            /\ phone_numbers[i].group_id = g}

\* the step answers a webhook request: request' holds its form fields
Answered == request' # NoRequest

Registered(From) == \E u \in 1..Len(users) : users[u].phone_number = From

LastMessage == messages[Len(messages)]

\* what parse_sms_command returns for each body in use
ExtractedName == [b \in Bodies |-> parse_sms_command(b).group_name]

Remainder == [b \in Bodies |-> parse_sms_command(b).message]

\* C5: when To is ASSIGNED and bound to group g and the sender is a member
\* of g, the webhook stores the message in g with the full Body as content,
\* whatever the body says and whatever other groups the sender is in.
C5_RoutedByDestination ==
    [][\A u \in 1..Len(users), g \in 1..Len(groups) :
            (/\ Answered
             /\ users[u].phone_number = request'.From
             /\ g \in BoundTo(request'.To)
             /\ IsMemberOf(u, g))
            => messages' = Append(messages, [content |-> request'.Body,
                                             user_id |-> u, group_id |-> g])]_vars

\* a body that names "group two" was stored whole in a group named
\* "Group One" although its author is also in a group named "Group Two"
C5_Witness ==
    /\ messages # <<>>
    /\ LastMessage.content = BodyQuotedLower
    /\ groups[LastMessage.group_id].name = GroupOne
    /\ \E g \in MembershipsOf(LastMessage.user_id) : groups[g].name = GroupTwo
    /\ \E i \in PhoneIds : /\ phone_numbers[i].status = ASSIGNED
                           /\ phone_numbers[i].group_id = LastMessage.group_id

\* C6: when To is ASSIGNED and bound to a group the sender is not in, the
\* webhook answers with the not-a-member reply naming that group, stores no
\* Message and sends nothing.
C6_NotAMember ==
    [][\A u \in 1..Len(users), g \in 1..Len(groups) :
            (/\ Answered
             /\ users[u].phone_number = request'.From
             /\ g \in BoundTo(request'.To)
             /\ ~IsMemberOf(u, g))
            => /\ response' = Ok(<<"You are not a member of the '",
                                   groups[g].name, "' group">>)
               /\ messages' = messages
               /\ sent' = <<>>]_vars

\* the not-a-member reply was given although a user outside the named group
\* belongs to exactly one group
C6_Witness ==
    /\ response.status = 200
    /\ Len(response.message) = 3
    /\ response.message[1] = "You are not a member of the '"
    /\ messages = <<>>
    /\ \E u \in 1..Len(users) :
           /\ Cardinality(MembershipsOf(u)) = 1
           /\ \A g \in MembershipsOf(u) : groups[g].name # response.message[2]

\* C7: when From belongs to no User, the webhook returns the not-registered
\* reply, stores no Message, sends nothing and leaves pool and memberships
\* unchanged, whatever To and Body are.
C7_UnknownSender ==
    [][(Answered /\ ~Registered(request'.From))
         => /\ response' = Ok(<<"User not registered">>)
            /\ messages' = messages
            /\ sent' = <<>>
            /\ UNCHANGED <<otp_verifications, users, groups, user_groups, phone_numbers>>]_vars

\* the not-registered reply was given while a number is bound to a group
C7_Witness ==
    /\ response = Ok(<<"User not registered">>)
    /\ messages = <<>>
    /\ \E i \in PhoneIds : /\ phone_numbers[i].status = ASSIGNED
                           /\ phone_numbers[i].group_id # None

\* C8: when the sender is in exactly one group, To is not a bound pool
\* number and the parser extracts no group name, the message is stored in
\* that group with the full body as content.
C8_SingleGroup ==
    [][\A u \in 1..Len(users), g \in 1..Len(groups) :
            (/\ Answered
             /\ users[u].phone_number = request'.From
             /\ BoundTo(request'.To) = {}
             /\ ExtractedName[request'.Body] = NoName
             /\ MembershipsOf(u) = {g})
            => messages' = Append(messages, [content |-> request'.Body,
                                             user_id |-> u, group_id |-> g])]_vars

\* a body that starts with @ but yields no name was stored whole in its
\* author's only group, which has no number
C8_Witness ==
    /\ messages # <<>>
    /\ LastMessage.content = BodyBareAt
    /\ MembershipsOf(LastMessage.user_id) = {LastMessage.group_id}
    /\ \A i \in PhoneIds : phone_numbers[i].group_id # LastMessage.group_id

\* C9: on the fallback path with an extracted group name, the message goes
\* only to a group of the sender whose name equals the extracted name
\* case-insensitively, with the parsed remainder as content; when there is
\* none the reply names the attempted group, nothing is stored and nothing
\* is sent.
C9_NamedGroup ==
    [][\A u \in 1..Len(users) :
            (/\ Answered
             /\ users[u].phone_number = request'.From
             /\ BoundTo(request'.To) = {}
             /\ ExtractedName[request'.Body] # NoName)
            => LET name == ExtractedName[request'.Body]
                   matching == {g \in MembershipsOf(u) :
                                   Lowered[groups[g].name] = Lowered[name]}
               IN  IF matching = {}
                   THEN /\ response' = Ok(<<"Group '", name,
                                           "' not found or you are not a member">>)
                        /\ messages' = messages
                        /\ sent' = <<>>
                   ELSE \E g \in matching :
                            messages' = Append(messages,
                                [content |-> Remainder[request'.Body],
                                 user_id |-> u, group_id |-> g])]_vars

\* "yo", the remainder of '@"group two" yo', was stored in a group named
\* "Group Two" that has no number
C9_Witness ==
    /\ messages # <<>>
    /\ LastMessage.content = <<"y", "o">>
    /\ groups[LastMessage.group_id].name = GroupTwo
    /\ \A i \in PhoneIds : phone_numbers[i].group_id # LastMessage.group_id

\* C10: a member of exactly the groups 'Group One' and 'Group Two' who texts
\* '@Group One Hello Group One!' to a number outside the pool gets one
\* message stored in 'Group One' with content 'Hello Group One!'.
C10_UnquotedMultiWord ==
    [][\A u \in 1..Len(users) : \A g1, g2 \in 1..Len(groups) :
            (/\ Answered
             /\ users[u].phone_number = request'.From
             /\ request'.Body = BodyUnquoted
             /\ \A i \in PhoneIds : phone_numbers[i].phone_number # request'.To
             /\ groups[g1].name = GroupOne
             /\ groups[g2].name = GroupTwo
             /\ MembershipsOf(u) = {g1, g2})
            => messages' = Append(messages, [content |-> HelloGroupOne,
                                             user_id |-> u, group_id |-> g1])]_vars

\* the reply of sms.py:67-72
MultipleGroupsReply ==
    Ok(<<"Multiple groups detected. Prefix message with @\"Group Name\" to specify destination.">>)

\* C11: on the fallback path with no group name extracted, a sender in no
\* group gets a reply of its own, different from the reply a sender in
\* several groups gets (the instruction to use the @"Group Name" prefix),
\* and in both cases no Message is stored.
C11_NoGroupsDistinct ==
    [][\A u \in 1..Len(users) :
            (/\ Answered
             /\ users[u].phone_number = request'.From
             /\ BoundTo(request'.To) = {}
             /\ ExtractedName[request'.Body] = NoName
             /\ Cardinality(MembershipsOf(u)) # 1)
            => /\ messages' = messages
               /\ IF MembershipsOf(u) = {}
                  THEN response' # MultipleGroupsReply
                  ELSE response' = MultipleGroupsReply]_vars

\* C12: every webhook request ends with a success response that carries a
\* reply string; none ends in an error.
C12_AlwaysSuccess ==
    [][Answered => (response'.status = 200 /\ response'.message # <<>>)]_vars

----------------------------------------------------------------------------
(* Properties of the fanout *)

\* the step stored a message
Stored == Len(messages') = Len(messages) + 1

NewMessage == messages'[Len(messages')]

\* the members of a group other than the author, from the table
OtherMembers(g, author) == {u \in 1..Len(users) : IsMemberOf(u, g)} \ {author}

\* the transport calls of the step that went to a user's number
CallsTo(u) == {k \in DOMAIN sent' : sent'[k].call.to = users[u].phone_number}

\* the numbers ASSIGNED and bound to a group
BoundNumbers(g) ==
    {phone_numbers[i].phone_number : i \in
        {j \in PhoneIds : /\ phone_numbers[j].status = ASSIGNED
                          /\ phone_numbers[j].group_id = g}}

\* C13: whenever a message is delivered, every member of the group other
\* than the author gets a send attempt, also when the send to one of them
\* fails.
C13_FanoutIsolated ==
    [][Stored =>
          \A u \in OtherMembers(NewMessage.group_id, NewMessage.user_id) :
              CallsTo(u) # {}]_vars

\* C14: a transport call that raises during fanout is not surfaced: the
\* request still ends with its success response.
C14_TransportNotSurfaced ==
    [][(\E k \in DOMAIN sent' : sent'[k].raised) => response'.status = 200]_vars

\* C15: whenever a transport call is attempted, the Message it carries has
\* been appended in the same request, also when a call raises; and no step
\* removes or changes a stored Message.
C15_StoredBeforeSends ==
    [][/\ Len(messages') >= Len(messages)
       /\ SubSeq(messages', 1, Len(messages)) = messages
       /\ ((sent' # <<>>) =>
              /\ Stored
              /\ \A k \in DOMAIN sent' :
                     sent'[k].call.body =
                         <<"[", groups[NewMessage.group_id].name, "] ",
                           users[NewMessage.user_id].name, ": ",
                           NewMessage.content>>)]_vars

\* the first of two transport calls raised, the request ended with a 500
\* and the message is in the table
C15_Witness ==
    /\ response.status = 500
    /\ Len(sent) = 1
    /\ sent[1].raised
    /\ messages # <<>>
    /\ Cardinality({u \in 1..Len(users) : IsMemberOf(u, LastMessage.group_id)}) = 3

\* C16: a delivery in which no transport call fails makes exactly one call
\* to each member of the group other than the author and no other call, each
\* with body '[<group name>] <author name>: <content>'.
C16_OneSendPerOtherMember ==
    [][(Stored /\ \A k \in DOMAIN sent' : ~sent'[k].raised) =>
          LET g == NewMessage.group_id
              author == NewMessage.user_id
              others == OtherMembers(g, author)
          IN  /\ Len(sent') = Cardinality(others)
              /\ \A u \in others : Cardinality(CallsTo(u)) = 1
              /\ \A k \in DOMAIN sent' :
                     /\ \E u \in others : k \in CallsTo(u)
                     /\ sent'[k].call.body =
                            <<"[", groups[g].name, "] ", users[author].name,
                              ": ", NewMessage.content>>]_vars

\* a message posted to a group of three went out in two calls
C16_Witness ==
    /\ response.status = 200
    /\ messages # <<>>
    /\ Len(sent) = 2
    /\ Cardinality({u \in 1..Len(users) : IsMemberOf(u, LastMessage.group_id)}) = 3

\* C17: every transport call of a delivery has as sender the number bound
\* to the target group when there is one and the default number otherwise.
C17_SenderIdentity ==
    [][Stored =>
          \A k \in DOMAIN sent' :
              IF BoundNumbers(NewMessage.group_id) # {}
              THEN sent'[k].call.from_ \in BoundNumbers(NewMessage.group_id)
              ELSE sent'[k].call.from_ = twilio_phone_number]_vars

\* a message that came in on a number outside the pool went out from the
\* number bound to its group
C17_Witness ==
    /\ request # NoRequest
    /\ \A i \in PhoneIds : phone_numbers[i].phone_number # request.To
    /\ sent # <<>>
    /\ sent[1].call.from_ \in PoolNumbers

----------------------------------------------------------------------------
(* Properties of the memberships *)

\* GroupResponse.user_count (groups.py:65, 82): len(group.users)
user_count(g) == Cardinality(UsersOfGroup(g))

\* C18: user_groups never holds the same (user, group) pair twice, under
\* every interleaving of join_group requests.
C18_NoDuplicateMembership ==
    \A u \in 1..Len(users), g \in 1..Len(groups) :
        CopiesIn(<<u, g>>, user_groups) <= 1

\* C19: a join_group request for a user who is already in the group is
\* answered 400 "User already in group" and changes no table: no membership
\* row, no welcome Message, no welcome SMS.
C19_JoinTwiceRejected ==
    [][\A s \in DOMAIN session, g \in 1..Len(groups), u \in 1..Len(users) :
           (join_group_check(s, g, u) /\ IsMemberOf(u, g))
           => /\ response' = HTTPException(400, "User already in group")
              /\ sent' = <<>>
              /\ UNCHANGED <<user_groups, messages, session, users, groups,
                             phone_numbers>>
              /\ user_count(g)' = user_count(g)]_vars

\* the join was refused while the member's welcome Message is in the table
C19_Witness ==
    /\ response = HTTPException(400, "User already in group")
    /\ sent = <<>>
    /\ \E u \in 1..Len(users), g \in 1..Len(groups) :
           /\ IsMemberOf(u, g)
           /\ Len(messages) = 1
           /\ messages[1].user_id = u
           /\ messages[1].group_id = g

\* C20: with one request at a time, every join of a non-member and every
\* leave of a member succeeds, a join leaves the user in the group exactly
\* once, and user_count is the number of distinct members.
C20_RejoinClean ==
    [][/\ \A s \in DOMAIN session :
              join_group_append(s)
              => /\ response'.status = 200
                 /\ CopiesIn(<<session[s].user_id, session[s].group_id>>,
                             user_groups') = 1
                 /\ user_count(session[s].group_id)' =
                        Cardinality({u \in 1..Len(users) :
                                        IsMemberOf(u, session[s].group_id)'})
       /\ \A g \in 1..Len(groups), u \in 1..Len(users) :
              (leave_group(g, u) /\ IsMemberOf(u, g))
              => /\ response'.status = 200
                 /\ ~IsMemberOf(u, g)'
       /\ \A s \in DOMAIN session, g \in 1..Len(groups), u \in 1..Len(users) :
              (join_group_check(s, g, u) /\ ~IsMemberOf(u, g))
              => session'[s].pc = "append"]_vars

----------------------------------------------------------------------------
(* Properties of the pool handlers *)

\* C21: a create_group request whose query finds no AVAILABLE number reads
\* none, changes no PhoneNumber row, and ends with the group stored, the
\* group returned and no number bound to it.
C21_CreateWithoutNumber ==
    [][\A s \in DOMAIN session :
           /\ (/\ assign_phone_query(s)
               /\ \A i \in PhoneIds : phone_numbers[i].status # AVAILABLE)
              => /\ session'[s].available_phone = None
                 /\ session'[s].group_id \in 1..Len(groups)
                 /\ UNCHANGED phone_numbers
           /\ (assign_phone_claim(s) /\ session[s].available_phone = None)
              => /\ response' = Ok(<<"group", session[s].group_id>>)
                 /\ session[s].group_id \in 1..Len(groups')
                 /\ PhoneOfGroup(session[s].group_id)' = None
                 /\ UNCHANGED phone_numbers]_vars

\* a group was created and returned without a number although the pool
\* holds one (which is not AVAILABLE)
C21_Witness ==
    /\ \E s \in DOMAIN session :
           /\ session[s].pc = "done"
           /\ session[s].group_id # None
           /\ session[s].phone = None
           /\ response = Ok(<<"group", session[s].group_id>>)
           /\ PhoneOfGroup(session[s].group_id) = None
    /\ phone_numbers # <<>>
    /\ \A i \in PhoneIds : phone_numbers[i].status = INACTIVE

\* C22: no step removes a PhoneNumber row that is ASSIGNED to a group,
\* whatever runs concurrently with the delete.
C22_AssignedNeverDeleted ==
    [][\A i \in PhoneIds :
           (phone_numbers[i].status = ASSIGNED /\ phone_numbers[i].group_id # None)
           => i \in DOMAIN phone_numbers']_vars

\* C23: registering a number that is in the pool is answered 400 and
\* changes no row; registering a new number adds one row with status
\* AVAILABLE and no group_id; and no two rows ever hold the same number.
C23_RegisterUnique ==
    [][/\ \A number \in PoolNumbers :
              register_phone_number(number)
              => IF \E i \in PhoneIds : phone_numbers[i].phone_number = number
                 THEN /\ response' = HTTPException(400, "Phone number already registered")
                      /\ UNCHANGED phone_numbers
                 ELSE \E new \in DOMAIN phone_numbers' \ PhoneIds :
                          /\ DOMAIN phone_numbers' = PhoneIds \cup {new}
                          /\ phone_numbers'[new].phone_number = number
                          /\ phone_numbers'[new].status = AVAILABLE
                          /\ phone_numbers'[new].group_id = None
                          /\ \A i \in PhoneIds : phone_numbers'[i] = phone_numbers[i]
       /\ \A i, j \in DOMAIN phone_numbers' :
              i # j => phone_numbers'[i].phone_number # phone_numbers'[j].phone_number]_vars

\* a registration was refused for a number that is ASSIGNED to a group
C23_Witness ==
    /\ response = HTTPException(400, "Phone number already registered")
    /\ Cardinality(PhoneIds) = 1
    /\ \A i \in PhoneIds : /\ phone_numbers[i].status = ASSIGNED
                           /\ phone_numbers[i].group_id # None

\* C24: update_phone_status of an existing number to AVAILABLE or INACTIVE
\* sets the status and clears group_id and assigned_at; to ASSIGNED it sets
\* the status and leaves group_id and assigned_at; no other row changes.
C24_StatusUpdateEffect ==
    [][\A phone_id \in PhoneIds, status \in PhoneStatus :
           update_phone_status(phone_id, status)
           => /\ DOMAIN phone_numbers' = PhoneIds
              /\ \A i \in PhoneIds \ {phone_id} : phone_numbers'[i] = phone_numbers[i]
              /\ phone_numbers'[phone_id].status = status
              /\ phone_numbers'[phone_id].phone_number =
                     phone_numbers[phone_id].phone_number
              /\ IF status = ASSIGNED
                 THEN /\ phone_numbers'[phone_id].group_id =
                             phone_numbers[phone_id].group_id
                      /\ phone_numbers'[phone_id].assigned_at =
                             phone_numbers[phone_id].assigned_at
                 ELSE /\ phone_numbers'[phone_id].group_id = None
                      /\ phone_numbers'[phone_id].assigned_at = NoTime]_vars

\* the only number of the pool was released from its group by an update to
\* INACTIVE: the group is left without a number
C24_Witness ==
    /\ response = Ok(<<"Phone number status updated to ", INACTIVE>>)
    /\ Cardinality(PhoneIds) = 1
    /\ next_phone_id = 2
    /\ \A i \in PhoneIds : /\ phone_numbers[i].status = INACTIVE
                           /\ phone_numbers[i].group_id = None
                           /\ phone_numbers[i].assigned_at = NoTime
    /\ Len(groups) = MaxGroups

\* C25: a number's status changes to ASSIGNED only in the step of a
\* create_group request that claims it, and to INACTIVE or AVAILABLE only in
\* an admin status update that also clears group_id and assigned_at.
C25_StatusTransitions ==
    [][\A i \in PhoneIds \cap DOMAIN phone_numbers' :
           phone_numbers'[i].status # phone_numbers[i].status
           => IF phone_numbers'[i].status = ASSIGNED
              THEN \E s \in DOMAIN session :
                       /\ assign_phone_claim(s)
                       /\ session[s].available_phone = i
              ELSE /\ \E status \in {AVAILABLE, INACTIVE} :
                          update_phone_status(i, status)
                   /\ phone_numbers'[i].group_id = None
                   /\ phone_numbers'[i].assigned_at = NoTime]_vars

----------------------------------------------------------------------------
(* SpecLog: every handler that runs against a group with messages: the     *)
(* webhook, the web send, join and leave, and the admin handlers of the    *)
(* pool.                                                                   *)

MaxLog == 2

InitLog ==
    /\ otp_verifications = <<>>
    /\ users = <<Alice, Bob>>
    /\ groups = <<[name |-> GroupOne]>>
    /\ \E members \in SUBSET ((1..2) \X {1}) : user_groups = SetToBag(members)
    /\ phone_numbers \in JoinPools(1)
    /\ next_phone_id = Len(phone_numbers) + 1
    /\ messages = <<>>
    /\ sent = <<>>
    /\ request = NoRequest
    /\ response = NoResponse
    /\ session = [s \in 1..NumSessions |-> IdleSession]

\* the requests of SpecLog are served one at a time
NoneInFlight == \A s \in DOMAIN session : session[s].pc \in {"idle", "done"}

NextLog ==
    \/ \E From \in Froms, Body \in {BodyPlain, BodyBareAt}, To \in Tos :
           /\ Quiescent /\ NoneInFlight
           /\ Len(messages) < MaxLog
           /\ handle_sms_webhook(From, Body, To)
    \/ \E group_id \in 1..2, user_id \in 1..3, content \in Contents :
           /\ Quiescent /\ NoneInFlight
           /\ Len(messages) < MaxLog
           /\ send_message(group_id, user_id, content)
    \/ \E group_id \in 1..2, user_id \in 1..3 :
           /\ Quiescent /\ NoneInFlight
           /\ Len(messages) < MaxLog
           /\ join_group_check(1, group_id, user_id)
    \/ Quiescent /\ join_group_append(1)
    \/ \E group_id \in 1..2, user_id \in 1..3 :
           Quiescent /\ NoneInFlight /\ leave_group(group_id, user_id)
    \/ \E number \in PoolNumbers :
           Quiescent /\ NoneInFlight /\ register_phone_number(number)
    \/ \E phone_id \in 1..MaxPhones :
           Quiescent /\ NoneInFlight /\ delete_phone_number(1, phone_id)
    \/ Quiescent /\ delete_phone_commit(1)
    \/ \E phone_id \in 1..MaxPhones, status \in StatusStrings :
           Quiescent /\ NoneInFlight /\ update_phone_status(phone_id, status)
    \/ close_request

SpecLog == InitLog /\ [][NextLog]_vars

----------------------------------------------------------------------------
(* get_group_messages (api/groups.py) and SpecRead: reads of a stored log. *)
(* The rows of SpecRead carry created_at, the column the read orders by;   *)
(* the handlers of the other specifications never read it and their rows   *)
(* leave it out.                                                           *)

\* the .limit(50) of the query, scaled to the tables of the model
MessageLimit == 2

MaxStored == 3

\* created_at is the server's now() of the inserting transaction: two rows
\* may hold the same value, and a row with a larger id may hold a smaller one
MaxTime == 2

StoredRows ==
    [content : Contents, user_id : 1..2, group_id : 1..2,
     created_at : 1..MaxTime]

\* ORDER BY created_at DESC over the rows with ids S: the orders the
\* database may produce, rows of equal created_at in any order
RECURSIVE OrderByCreatedAtDesc(_, _)
OrderByCreatedAtDesc(log, S) ==
    IF S = {}
    THEN {<<>>}
    ELSE UNION {{<<k>> \o rest : rest \in OrderByCreatedAtDesc(log, S \ {k})} :
                k \in {k \in S : \A m \in S :
                                     log[m].created_at <= log[k].created_at}}

\* lines 150-159: the MessageResponse built from row id
MessageResponse(id) ==
    [id |-> id,
     content |-> messages[id].content,
     user_id |-> messages[id].user_id,
     group_id |-> messages[id].group_id,
     created_at |-> messages[id].created_at,
     user_name |-> users[messages[id].user_id].name]

get_group_messages_all(group_id) ==
    /\ \E ordered \in OrderByCreatedAtDesc(messages, DOMAIN messages) :
           LET n == IF Len(ordered) < MessageLimit
                    THEN Len(ordered) ELSE MessageLimit
           IN  response' = Ok([i \in 1..n |-> MessageResponse(ordered[i])])
    /\ sent' = <<>>
    /\ request' = NoRequest
    /\ UNCHANGED <<otp_verifications, users, groups, user_groups, phone_numbers, next_phone_id,
                   messages, session>>

get_group_messages(group_id) ==
    /\ \E ordered \in OrderByCreatedAtDesc(messages,
                          {k \in DOMAIN messages :
                               messages[k].group_id = group_id}) :
           LET n == IF Len(ordered) < MessageLimit
                    THEN Len(ordered) ELSE MessageLimit
           IN  response' = Ok([i \in 1..n |-> MessageResponse(ordered[i])])
    /\ sent' = <<>>
    /\ request' = NoRequest
    /\ UNCHANGED <<otp_verifications, users, groups, user_groups, phone_numbers, next_phone_id,
                   messages, session>>

InitRead ==
    /\ otp_verifications = <<>>
    /\ users = <<Alice, Bob>>
    /\ groups = <<[name |-> GroupOne], [name |-> GroupTwo]>>
    /\ user_groups = EmptyBag
    /\ phone_numbers = <<>>
    /\ next_phone_id = 1
    /\ \E n \in 0..MaxStored : messages \in [1..n -> StoredRows]
    /\ sent = <<>>
    /\ request = NoRequest
    /\ response = NoResponse
    /\ session = <<>>

NextRead ==
    \/ \E group_id \in 1..3 : Quiescent /\ get_group_messages(group_id)
    \/ close_request

SpecRead == InitRead /\ [][NextRead]_vars

----------------------------------------------------------------------------
(* Users and OTP verification (api/users.py, services/otp_service.py).     *)
(* register_user and login_user are split at the commit of verify_otp:     *)
(*   verify  the SELECT of verify_otp (lines 52-60)                        *)
(*   commit  verified = 1, db.commit(), and the rest of the handler        *)
(* A deleted OTP row keeps its place in the sequence, marked deleted, so   *)
(* that ids are not reused.                                                *)

MaxUsers == 2

MaxOtps == 2

\* the phone numbers users register with
UserPhones == {Alice.phone_number, Bob.phone_number}

\* the phone numbers an OTP is requested for
OtpPhones == {Alice.phone_number}

UserNames == {"Alice"}

\* generate_otp() in mock mode, the default (MOCK_SMS unset)
OtpCodes == {"111111"}

\* what a client may submit as otp_code
SubmittedCodes == {"111111", "000000"}

\* create_user_legacy (users.py lines 81-96)
create_user_legacy_again(name, phone_number) ==
    /\ IF FALSE
       THEN /\ response' = HTTPException(400, "Phone number already registered")
            /\ UNCHANGED users
       ELSE /\ users' = Append(users, [name |-> name,
                                       phone_number |-> phone_number])
            /\ response' = Ok(<<"UserResponse", name, phone_number>>)
    /\ sent' = <<>>
    /\ request' = NoRequest
    /\ UNCHANGED <<groups, user_groups, phone_numbers, next_phone_id, messages,
                   session, otp_verifications>>

create_user_legacy(name, phone_number) ==
    /\ IF \E u \in 1..Len(users) : users[u].phone_number = phone_number
       THEN /\ response' = HTTPException(400, "Phone number already registered")
            /\ UNCHANGED users
       ELSE /\ users' = Append(users, [name |-> name,
                                       phone_number |-> phone_number])
            /\ response' = Ok(<<"UserResponse", name, phone_number>>)
    /\ sent' = <<>>
    /\ request' = NoRequest
    /\ UNCHANGED <<groups, user_groups, phone_numbers, next_phone_id, messages,
                   session, otp_verifications>>

\* send_otp_sms(to_number, otp_code)
send_otp_sms(to_number, otp_code) ==
    [to |-> to_number, from_ |-> twilio_phone_number,
     body |-> <<"Your SMS Chat verification code is: ", otp_code,
                ". Valid for 10 minutes.">>]

\* what is left of a deleted row: its id
DeletedRow ==
    [phone_number |-> "", otp_code |-> "", verified |-> 0, expired |-> FALSE,
     deleted |-> TRUE]

\* send_otp -> create_otp_verification (otp_service.py lines 21-47): delete
\* the unverified rows of the number, insert the new row, commit, send
send_otp(phone_number, otp_code) ==
    /\ otp_verifications' =
           Append([i \in DOMAIN otp_verifications |->
                      IF /\ otp_verifications[i].phone_number = phone_number
                         /\ otp_verifications[i].verified = 0
                      THEN DeletedRow
                      ELSE otp_verifications[i]],
                  [phone_number |-> phone_number, otp_code |-> otp_code,
                   verified |-> 0, expired |-> FALSE, deleted |-> FALSE])
    /\ \/ /\ sent' = <<[call |-> send_otp_sms(phone_number, otp_code),
                        raised |-> FALSE]>>
          /\ response' = Ok(<<"OTP sent successfully">>)
       \/ /\ sent' = <<[call |-> send_otp_sms(phone_number, otp_code),
                        raised |-> TRUE]>>
          /\ response' = HTTPException(500, "Internal Server Error")
    /\ request' = NoRequest
    /\ UNCHANGED <<users, groups, user_groups, phone_numbers, next_phone_id,
                   messages, session>>

\* datetime.utcnow() passes the expires_at of row id, a row that verify_otp
\* could still select
otp_expires(id) ==
    /\ id \in DOMAIN otp_verifications
    /\ ~otp_verifications[id].deleted
    /\ otp_verifications[id].verified = 0
    /\ ~otp_verifications[id].expired
    /\ otp_verifications' = [otp_verifications EXCEPT ![id].expired = TRUE]
    /\ UNCHANGED <<users, groups, user_groups, phone_numbers, next_phone_id,
                   messages, sent, request, response, session>>

\* the rows the query of verify_otp (lines 52-57) may return with .first()
Verifications(phone_number, otp_code) ==
    {i \in DOMAIN otp_verifications :
        /\ ~otp_verifications[i].deleted
        /\ otp_verifications[i].phone_number = phone_number
        /\ otp_verifications[i].otp_code = otp_code
        /\ otp_verifications[i].verified = 0
        /\ ~otp_verifications[i].expired}

\* the SELECT of verify_otp in a register_user or login_user request
verify_otp_query(s, handler, phone_number, name, otp_code) ==
    /\ session[s].pc \in {"idle", "done"}
    /\ IF Verifications(phone_number, otp_code) = {}
       THEN /\ response' = HTTPException(400, "Invalid or expired OTP")
            /\ UNCHANGED session
       ELSE /\ \E verification \in Verifications(phone_number, otp_code) :
                   session' = [session EXCEPT ![s] =
                                 [pc |-> handler, verification |-> verification,
                                  phone_number |-> phone_number, name |-> name]]
            /\ UNCHANGED response
    /\ sent' = <<>>
    /\ request' = NoRequest
    /\ UNCHANGED <<users, groups, user_groups, phone_numbers, next_phone_id,
                   messages, otp_verifications>>

register_user_verify(s, phone_number, name, otp_code) ==
    verify_otp_query(s, "register", phone_number, name, otp_code)

login_user_verify(s, phone_number, otp_code) ==
    verify_otp_query(s, "login", phone_number, "", otp_code)

\* verification.verified = 1; db.commit() (lines 63-64): UPDATE ... WHERE
\* id = ?, which finds the row also when another request has verified it
\* since the SELECT, and finds no row when a send_otp has deleted it
RowIsGone(s) == otp_verifications[session[s].verification].deleted

MarkVerified(s) ==
    [otp_verifications EXCEPT ![session[s].verification].verified = 1]

\* the rest of register_user (users.py lines 44-58)
register_user_commit(s) ==
    /\ session[s].pc = "register"
    /\ IF RowIsGone(s)
       THEN /\ response' = HTTPException(500, "Internal Server Error")
            /\ UNCHANGED <<users, otp_verifications>>
       ELSE /\ otp_verifications' = MarkVerified(s)
            /\ IF \E u \in 1..Len(users) :
                      users[u].phone_number = session[s].phone_number
               THEN /\ response' =
                           HTTPException(400, "Phone number already registered")
                    /\ UNCHANGED users
               ELSE /\ users' = Append(users,
                                   [name |-> session[s].name,
                                    phone_number |-> session[s].phone_number])
                    /\ response' = Ok(<<"UserResponse", session[s].name,
                                        session[s].phone_number>>)
    /\ session' = [session EXCEPT ![s].pc = "done"]
    /\ sent' = <<>>
    /\ request' = NoRequest
    /\ UNCHANGED <<groups, user_groups, phone_numbers, next_phone_id, messages>>

\* the rest of login_user (users.py lines 70-77)
login_user_commit(s) ==
    /\ session[s].pc = "login"
    /\ IF RowIsGone(s)
       THEN /\ response' = HTTPException(500, "Internal Server Error")
            /\ UNCHANGED otp_verifications
       ELSE /\ otp_verifications' = MarkVerified(s)
            /\ IF UserByPhone(session[s].phone_number) = None
               THEN response' = HTTPException(404, "User not found")
               ELSE response' =
                        Ok(<<"UserResponse",
                             users[UserByPhone(session[s].phone_number)].name,
                             session[s].phone_number>>)
    /\ session' = [session EXCEPT ![s].pc = "done"]
    /\ sent' = <<>>
    /\ request' = NoRequest
    /\ UNCHANGED <<users, groups, user_groups, phone_numbers, next_phone_id,
                   messages>>

\* a new request is served by the first free session
FirstIdle(s) ==
    /\ session[s].pc = "idle"
    /\ \A t \in 1..(s - 1) : session[t].pc # "idle"

InitUsers ==
    /\ otp_verifications = <<>>
    /\ users = <<>>
    /\ groups = <<>>
    /\ user_groups = EmptyBag
    /\ phone_numbers = <<>>
    /\ next_phone_id = 1
    /\ messages = <<>>
    /\ sent = <<>>
    /\ request = NoRequest
    /\ response = NoResponse
    /\ session = [s \in 1..NumSessions |-> IdleSession]

NextUsers ==
    \/ \E name \in UserNames, phone_number \in UserPhones :
           /\ Quiescent
           /\ Len(users) < MaxUsers
           /\ create_user_legacy(name, phone_number)
    \/ \E phone_number \in OtpPhones, otp_code \in OtpCodes :
           /\ Quiescent
           /\ Len(otp_verifications) < MaxOtps
           /\ send_otp(phone_number, otp_code)
    \/ \E id \in 1..MaxOtps : Quiescent /\ otp_expires(id)
    \/ \E s \in DOMAIN session, phone_number \in UserPhones,
          name \in UserNames, otp_code \in SubmittedCodes :
           /\ Quiescent
           /\ FirstIdle(s)
           /\ Len(users) < MaxUsers
           /\ register_user_verify(s, phone_number, name, otp_code)
    \/ \E s \in DOMAIN session : Quiescent /\ register_user_commit(s)
    \/ \E s \in DOMAIN session, phone_number \in UserPhones,
          otp_code \in SubmittedCodes :
           /\ Quiescent
           /\ FirstIdle(s)
           /\ login_user_verify(s, phone_number, otp_code)
    \/ \E s \in DOMAIN session : Quiescent /\ login_user_commit(s)
    \/ close_request

SpecUsers == InitUsers /\ [][NextUsers]_vars

----------------------------------------------------------------------------
(* SpecLeave: the webhook split at its commit, with leave_group requests   *)
(* in between.                                                             *)
(*   route  lines 18-75: the sender, the target group and the membership   *)
(*          tests, read from the tables as they are                        *)
(*   store  lines 77-98: the Message, db.commit(), the fanout and the      *)
(*          reply; target_group.users is loaded again after the commit     *)

webhook_route(s, From, Body, To) ==
    LET user == UserByPhone(From)
        Reply(parts) ==
            /\ response' = Ok(parts)
            /\ request' = [From |-> From, Body |-> Body, To |-> To]
            /\ UNCHANGED session
        Store(target_group, content, group_phone) ==
            /\ session' = [session EXCEPT ![s] =
                              [pc |-> "store", user_id |-> user,
                               group_id |-> target_group, content |-> content,
                               group_phone |-> group_phone,
                               webhook |-> [From |-> From, Body |-> Body,
                                            To |-> To]]]
            /\ UNCHANGED <<request, response>>
    IN  /\ session[s].pc = "idle"
        /\ IF user = None
           THEN Reply(<<"User not registered">>)
           ELSE LET by_number == RouteByNumber(user, To)
                IN  IF by_number.rejected
                    THEN Reply(<<"You are not a member of the '",
                                 groups[by_number.target_group].name,
                                 "' group">>)
                    ELSE IF by_number.target_group # None
                    THEN Store(by_number.target_group, Body,
                               by_number.group_phone_for_sending)
                    ELSE \E r \in RouteFallback(user, Body) :
                             IF r.target_group = None
                             THEN Reply(r.reply)
                             ELSE Store(r.target_group, r.content,
                                        by_number.group_phone_for_sending)
        /\ sent' = <<>>
        /\ UNCHANGED <<users, groups, user_groups, phone_numbers,
                       next_phone_id, messages, otp_verifications>>

webhook_store(s) ==
    /\ session[s].pc = "store"
    /\ Deliver(session[s].user_id, session[s].group_id, session[s].content,
               session[s].group_phone)
    /\ request' = session[s].webhook
    /\ session' = [session EXCEPT ![s] = [IdleSession EXCEPT !.pc = "done"]]
    /\ UNCHANGED <<users, groups, user_groups, phone_numbers, next_phone_id,
                   otp_verifications>>

InitLeave ==
    /\ otp_verifications = <<>>
    /\ users = <<Alice, Bob>>
    /\ groups = <<[name |-> GroupOne]>>
    /\ \E members \in SUBSET ((1..2) \X {1}) : user_groups = SetToBag(members)
    /\ phone_numbers \in JoinPools(1)
    /\ next_phone_id = Len(phone_numbers) + 1
    /\ messages = <<>>
    /\ sent = <<>>
    /\ request = NoRequest
    /\ response = NoResponse
    /\ session = [s \in 1..NumSessions |-> IdleSession]

NextLeave ==
    \/ \E s \in DOMAIN session, From \in Froms \cup {Bob.phone_number},
          Body \in {BodyPlain, BodyUnquoted}, To \in Tos :
           /\ Quiescent
           /\ FirstIdle(s)
           /\ Len(messages) < MaxMessages
           /\ webhook_route(s, From, Body, To)
    \/ \E s \in DOMAIN session : Quiescent /\ webhook_store(s)
    \/ \E group_id \in 1..2, user_id \in 1..2 :
           Quiescent /\ leave_group(group_id, user_id)
    \/ close_request

SpecLeave == InitLeave /\ [][NextLeave]_vars

----------------------------------------------------------------------------
(* SpecRelease: a group whose bound number the admin releases, and the     *)
(* webhook requests that arrive before and after.                          *)

InitRelease ==
    /\ otp_verifications = <<>>
    /\ users = <<Alice, Bob>>
    /\ groups = <<[name |-> GroupOne], [name |-> GroupTwo]>>
    /\ \E members \in SUBSET ((1..2) \X (1..2)) :
           user_groups = SetToBag(members)
    /\ phone_numbers =
           <<[phone_number |-> PoolNumberSeq[1], status |-> ASSIGNED,
              group_id |-> 1, assigned_at |-> Now]>>
    /\ next_phone_id = 2
    /\ messages = <<>>
    /\ sent = <<>>
    /\ request = NoRequest
    /\ response = NoResponse
    /\ session = <<>>

NextRelease ==
    \/ \E phone_id \in 1..MaxRoutePhones, status \in StatusStrings :
           Quiescent /\ update_phone_status(phone_id, status)
    \/ \E From \in {Alice.phone_number, Bob.phone_number}, Body \in Bodies,
          To \in Tos :
           /\ Quiescent
           /\ Len(messages) < MaxMessages
           /\ handle_sms_webhook(From, Body, To)
    \/ close_request

SpecRelease == InitRelease /\ [][NextRelease]_vars

----------------------------------------------------------------------------
(* parse_sms_command applied to arbitrary bodies *)

MaxBodyLen == 6

\* the characters the two patterns tell apart: the at sign, the double
\* quote (also the one character that is neither letter nor whitespace), a
\* letter, the blank and the line break
ParseChars == {"@", "\"", "a", " ", "\n"}

\* bodies longer than MaxBodyLen: one-line and two-line messages in both forms
ExampleBodies ==
    { <<"@","\"","B","o","o","k"," ","C","l","u","b","\""," ","h","i"," ",
        "t","h","e","r","e">>,
      <<"@","\"","B","o","o","k"," ","C","l","u","b","\""," ","h","i","\n",
        "t","h","e","r","e">>,
      <<"@","B","o","o","k","C","l","u","b"," ","h","e","l","l","o"," ",
        "w","o","r","l","d">>,
      <<"@","B","o","o","k","C","l","u","b"," ","h","e","l","l","o","\n",
        "w","o","r","l","d">>,
      <<"j","u","s","t"," ","a"," ","m","e","s","s","a","g","e">> }

ParseBodies ==
    UNION {[1..n -> ParseChars] : n \in 0..MaxBodyLen} \cup ExampleBodies

\* a webhook request has arrived and its Body has not been parsed yet
InitParse ==
    /\ otp_verifications = <<>>
    /\ users = <<>>
    /\ groups = <<>>
    /\ user_groups = EmptyBag
    /\ phone_numbers = <<>>
    /\ next_phone_id = 1
    /\ messages = <<>>
    /\ sent = <<>>
    /\ session = [s \in 1..NumSessions |-> IdleSession]
    /\ response = NoResponse
    /\ \E Body \in ParseBodies :
           request = [From |-> "+15550000001", Body |-> Body, To |-> ""]

\* group_name, stripped = parse_sms_command(Body)
call_parse_sms_command ==
    /\ response = NoResponse
    /\ LET parsed == parse_sms_command(request.Body)
       IN  response' = Ok(<<parsed.group_name, parsed.message>>)
    /\ UNCHANGED <<otp_verifications, users, groups, user_groups, phone_numbers, next_phone_id,
                   messages, sent, request, session>>

NextParse == call_parse_sms_command

SpecParse == InitParse /\ [][NextParse]_vars

----------------------------------------------------------------------------
(* Properties of parse_sms_command *)

\* the body of the request has been parsed: response.message is the pair
\* (group name, message)
WasParsed == response # NoResponse /\ Len(response.message) = 2

\* b is @"<name>"<ws><rest> with a name of n >= 1 characters other than the
\* double quote, w >= 1 whitespace characters, and a rest that neither
\* starts nor ends with whitespace
IsQuotedForm(b, n, w) ==
    /\ n >= 1 /\ w >= 1
    /\ Len(b) >= n + w + 4
    /\ b[1] = "@" /\ b[2] = "\""
    /\ \A k \in 3..(n + 2) : b[k] # "\""
    /\ b[n + 3] = "\""
    /\ \A k \in (n + 4)..(n + 3 + w) : IsSpace(b[k])
    /\ ~IsSpace(b[n + w + 4])
    /\ ~IsSpace(b[Len(b)])

\* b is @<word><ws><rest> with a word of n >= 1 letters, w >= 1 whitespace
\* characters, and a rest that starts with a letter and does not end with
\* whitespace
IsWordForm(b, n, w) ==
    /\ n >= 1 /\ w >= 1
    /\ Len(b) >= n + w + 2
    /\ b[1] = "@"
    /\ \A k \in 2..(n + 1) : IsLetter(b[k])
    /\ \A k \in (n + 2)..(n + 1 + w) : IsSpace(b[k])
    /\ IsLetter(b[n + w + 2])
    /\ ~IsSpace(b[Len(b)])

\* C26: a body of the quoted form @"<name>" <rest> is parsed to
\* (name, rest).
C26_QuotedForm ==
    WasParsed =>
        LET b == request.Body
        IN  \A n, w \in 1..Len(b) :
                IsQuotedForm(b, n, w)
                => response.message =
                       <<SubSeq(b, 3, n + 2), SubSeq(b, n + w + 4, Len(b))>>

\* C27: a body @<word> <rest>, the word a single run of letters and the rest
\* starting with a letter, is parsed to (word, rest).
C27_WordForm ==
    WasParsed =>
        LET b == request.Body
        IN  \A n, w \in 1..Len(b) :
                IsWordForm(b, n, w)
                => response.message =
                       <<SubSeq(b, 2, n + 1), SubSeq(b, n + w + 2, Len(b))>>

\* b without its leading whitespace begins with an at sign
FirstIsAt(b) ==
    \E k \in 1..Len(b) : b[k] = "@" /\ \A m \in 1..(k - 1) : IsSpace(b[m])

\* b begins with @", a non-empty name, a closing quote, whitespace and
\* something after it
QuotedShape(b) ==
    \E n, w \in 1..Len(b) :
        /\ Len(b) >= n + w + 4
        /\ b[1] = "@" /\ b[2] = "\""
        /\ \A k \in 3..(n + 2) : b[k] # "\""
        /\ b[n + 3] = "\""
        /\ \A k \in (n + 4)..(n + 3 + w) : IsSpace(b[k])

\* b begins with @, a letter, letters and whitespace, whitespace and a
\* letter
UnquotedShape(b) ==
    \E n, w \in 1..Len(b) :
        /\ Len(b) >= n + w + 2
        /\ b[1] = "@" /\ IsLetter(b[2])
        /\ \A k \in 3..(n + 1) : IsLetter(b[k]) \/ IsSpace(b[k])
        /\ \A k \in (n + 2)..(n + 1 + w) : IsSpace(b[k])
        /\ IsLetter(b[n + w + 2])

----------------------------------------------------------------------------
(* Properties of the message log *)

\* the positions of the log that hold messages of group g
MessagesOf(log, g) == {k \in DOMAIN log : log[k].group_id = g}

\* C29: the message log is append-only: every stored Message keeps its
\* content, author and group and stays in the table, and the messages of
\* each group only grow.
C29_AppendOnly ==
    [][/\ \A k \in DOMAIN messages :
              /\ k \in DOMAIN messages'
              /\ messages'[k].content = messages[k].content
              /\ messages'[k].user_id = messages[k].user_id
              /\ messages'[k].group_id = messages[k].group_id
       /\ \A g \in DOMAIN groups :
              MessagesOf(messages, g) \subseteq MessagesOf(messages', g)]_vars

\* the author of a stored message has left the group and the group's number
\* has been released and deleted; the log is still there
C29_Witness ==
    /\ Len(messages) = MaxLog
    /\ \E k \in DOMAIN messages :
           /\ messages[k].content = BodyPlain
           /\ ~IsMemberOf(messages[k].user_id, messages[k].group_id)
    /\ phone_numbers = <<>>
    /\ next_phone_id > 1

\* C30: get_group_messages returns rows of the requested group only, each
\* stored row at most once, newest first by created_at, at most MessageLimit
\* of them; when the group has more, none of the rows left out is newer
\* than a returned one.
C30_NewestOfGroup ==
    [][\A group_id \in 1..3 :
           get_group_messages(group_id)
           => LET result == response'.message
                  returned == {result[i].id : i \in DOMAIN result}
                  stored == MessagesOf(messages, group_id)
              IN  /\ response'.status = 200
                  /\ returned \subseteq stored
                  /\ Cardinality(returned) = Len(result)
                  /\ \A i \in DOMAIN result :
                         /\ result[i].group_id = group_id
                         /\ result[i].content = messages[result[i].id].content
                         /\ result[i].created_at =
                                messages[result[i].id].created_at
                  /\ \A i, j \in DOMAIN result :
                         i < j => result[i].created_at >= result[j].created_at
                  /\ Len(result) <= MessageLimit
                  /\ Cardinality(stored) <= MessageLimit => returned = stored
                  /\ Cardinality(stored) > MessageLimit
                     => /\ Len(result) = MessageLimit
                        /\ \A k \in stored \ returned, i \in DOMAIN result :
                               messages[k].created_at <= result[i].created_at]_vars

\* a group with more than MessageLimit messages was read: the oldest one,
\* stored last, was left out, and so was a newer message of another group
C30_Witness ==
    /\ Len(response.message) = MessageLimit
    /\ Len(messages) = MaxStored
    /\ \E g \in 1..2 :
           /\ Cardinality(MessagesOf(messages, g)) > MessageLimit
           /\ \A i \in DOMAIN response.message :
                  /\ response.message[i].group_id = g
                  /\ response.message[i].id # Len(messages)
                  /\ response.message[i].created_at >
                         messages[Len(messages)].created_at

----------------------------------------------------------------------------
(* Properties of users and OTP verification *)

\* the users a webhook's sender lookup by From may resolve to
SendersOf(From) == {u \in 1..Len(users) : users[u].phone_number = From}

\* C31: no two User records share a phone number: create_user_legacy and
\* register_user for a phone number that is registered are answered 400 and
\* leave the users unchanged; a lookup by From finds at most one user.
C31_UserPhoneUnique ==
    [][/\ \A name \in UserNames, phone_number \in UserPhones :
              (create_user_legacy(name, phone_number)
                   /\ SendersOf(phone_number) # {})
              => /\ response' =
                        HTTPException(400, "Phone number already registered")
                 /\ UNCHANGED users
       /\ \A s \in DOMAIN session :
              (register_user_commit(s) /\ ~RowIsGone(s)
                   /\ SendersOf(session[s].phone_number) # {})
              => /\ response' =
                        HTTPException(400, "Phone number already registered")
                 /\ UNCHANGED users
       /\ \A From \in UserPhones : Cardinality(SendersOf(From)') <= 1]_vars

\* a request was refused for a phone number that the one registered user
\* holds, and an OTP has been used
C31_Witness ==
    /\ response = HTTPException(400, "Phone number already registered")
    /\ Len(users) = 1
    /\ \E i \in DOMAIN otp_verifications : otp_verifications[i].verified = 1

\* the undeleted rows of the table that are unverified and belong to the
\* phone number
Unverified(table, phone_number) ==
    {i \in DOMAIN table : /\ ~table[i].deleted
                          /\ table[i].phone_number = phone_number
                          /\ table[i].verified = 0}

\* C40: each OTP record yields at most one successful verification: a
\* request whose verify_otp succeeds on a record finds it unverified at its
\* commit, also when another request verifies the same record concurrently;
\* and send_otp leaves the new row as the only unverified one of its phone.
C40_OtpUsedOnce ==
    [][/\ \A s \in DOMAIN session :
              ((register_user_commit(s) \/ login_user_commit(s))
                   /\ ~RowIsGone(s))
              => otp_verifications[session[s].verification].verified = 0
       /\ \A phone_number \in OtpPhones, otp_code \in OtpCodes :
              send_otp(phone_number, otp_code)
              => Unverified(otp_verifications', phone_number) =
                     {Len(otp_verifications')}]_vars

----------------------------------------------------------------------------
(* Properties of assignment, join and routing *)

\* C32: the step of create_group that writes the number it found changes
\* exactly one PhoneNumber record: one that was AVAILABLE becomes ASSIGNED to
\* the new group with assigned_at stamped; every other record, and every
\* number that was ASSIGNED or INACTIVE, is left unchanged.
C32_ClaimChangesOneAvailable ==
    [][\A s \in DOMAIN session :
           (assign_phone_claim(s) /\ session[s].available_phone # None)
           => LET p == session[s].available_phone
              IN  /\ p \in PhoneIds
                  /\ phone_numbers[p].status = AVAILABLE
                  /\ DOMAIN phone_numbers' = PhoneIds
                  /\ phone_numbers'[p].status = ASSIGNED
                  /\ phone_numbers'[p].group_id = session[s].group_id
                  /\ phone_numbers'[p].assigned_at = Now
                  /\ \A i \in PhoneIds \ {p} :
                         phone_numbers'[i] = phone_numbers[i]]_vars

\* the numbers of the pool whose group_id is g
NumbersBoundTo(g) ==
    {phone_numbers[i].phone_number :
         i \in {i \in PhoneIds : phone_numbers[i].group_id = g}}

C34_AuthorIsMemberAtCommit ==
    [][\A s \in DOMAIN session :
           webhook_store(s)
           => IsMemberOf(session[s].user_id, session[s].group_id)]_vars

\* a webhook request is answered in this step
WebhookAnswered == request = NoRequest /\ request' # NoRequest

\* the reply is 'Message sent to <name> group' for some group name
IsSentReply(reply) ==
    /\ reply.status = 200
    /\ Len(reply.message) = 3
    /\ reply.message[1] = "Message sent to "
    /\ reply.message[3] = " group"

\* C35: a webhook invocation appends at most one Message: exactly one when
\* its reply is 'Message sent to <group> group', and then to the group
\* named in the reply; none for every other reply.
C35_OnePerSentReply ==
    [][WebhookAnswered
       => IF IsSentReply(response')
          THEN /\ Len(messages') = Len(messages) + 1
               /\ SubSeq(messages', 1, Len(messages)) = messages
               /\ groups[messages'[Len(messages')].group_id].name =
                      response'.message[2]
          ELSE messages' = messages]_vars

\* the rows of the pool that hold the number and are AVAILABLE or INACTIVE
ReleasedRows(number) ==
    {i \in PhoneIds : /\ phone_numbers[i].phone_number = number
                      /\ phone_numbers[i].status \in {AVAILABLE, INACTIVE}}

\* the numbers of the pool that are ASSIGNED to group g
NumbersAssignedTo(g) ==
    {phone_numbers[i].phone_number :
         i \in {i \in PhoneIds : /\ phone_numbers[i].status = ASSIGNED
                                 /\ phone_numbers[i].group_id = g}}

\* C36: an inbound SMS from a registered sender addressed to a number the
\* admin has set to INACTIVE or AVAILABLE is not routed by destination: it
\* never gets the not-a-member reply of destination routing; a Message is
\* stored only for the group the body names among the sender's groups (with
\* the command removed) or, without a command, for the sender's only group;
\* otherwise the reply is the group-not-found or the multiple-groups reply;
\* and the fanout never comes from the released number: for a group with no
\* ASSIGNED number it comes from the default outbound number.
C36_ReleasedNumberFallsBack ==
    [][\A u \in 1..Len(users) :
           (/\ WebhookAnswered
            /\ users[u].phone_number = request'.From
            /\ ReleasedRows(request'.To) # {})
           => LET Body == request'.Body
                  group_name == Parsed[Body].group_name
              IN  /\ response'.message[1] # "You are not a member of the '"
                  /\ IF messages' = messages
                     THEN /\ sent' = <<>>
                          /\ IF group_name # NoName
                             THEN /\ response'.message[1] = "Group '"
                                  /\ \A g \in GroupsOfUser(u) :
                                         Lowered[groups[g].name] #
                                             Lowered[group_name]
                             ELSE /\ response' = MultipleGroupsReply
                                  /\ Cardinality(GroupsOfUser(u)) # 1
                     ELSE /\ Len(messages') = Len(messages) + 1
                          /\ LET m == messages'[Len(messages')]
                             IN  /\ m.user_id = u
                                 /\ m.group_id \in GroupsOfUser(u)
                                 /\ IF group_name # NoName
                                    THEN /\ Lowered[groups[m.group_id].name] =
                                                Lowered[group_name]
                                         /\ m.content = Parsed[Body].message
                                    ELSE /\ GroupsOfUser(u) = {m.group_id}
                                         /\ m.content = Body
                                 /\ \A k \in DOMAIN sent' :
                                        /\ sent'[k].call.from_ # request'.To
                                        /\ NumbersAssignedTo(m.group_id) = {}
                                           => sent'[k].call.from_ =
                                                  twilio_phone_number]_vars

\* the number of group 1 is INACTIVE; a member of both groups wrote to it
\* without a command and got the multiple-groups reply, where destination
\* routing would have stored the message for group 1
C36_Witness ==
    /\ phone_numbers[1].status = INACTIVE
    /\ request.To = phone_numbers[1].phone_number
    /\ request.Body = BodyPlain
    /\ \E u \in 1..Len(users) :
           /\ users[u].phone_number = request.From
           /\ GroupsOfUser(u) = {1, 2}
    /\ response = MultipleGroupsReply
    /\ messages = <<>>

\* the create_group request of group g has not finished
BeingCreated(g) ==
    \E s \in DOMAIN session :
        session[s].pc \in {"query", "claim"} /\ session[s].group_id = g

\* C37: a group acquires a bound number only in the claim step of its own
\* create_group request; once that request has finished, a group without a
\* number stays without one, whatever is registered, released or claimed
\* afterwards.
C37_BoundOnlyAtCreation ==
    [][\A g \in 1..MaxGroups :
           (/\ phone_numbers' # phone_numbers
            /\ PhoneOfGroup(g) = None
            /\ PhoneOfGroup(g)' # None)
           => /\ BeingCreated(g)
              /\ \E s \in DOMAIN session :
                     /\ assign_phone_claim(s)
                     /\ session[s].group_id = g
                     /\ PhoneOfGroup(g)' = session[s].available_phone]_vars

\* group 1 was created and is without a number, its request has finished,
\* and a number has just been made AVAILABLE that no later step may give it
C37_Witness ==
    /\ Len(groups) >= 1
    /\ ~BeingCreated(1)
    /\ PhoneOfGroup(1) = None
    /\ \E i \in PhoneIds : phone_numbers[i].status = AVAILABLE
    /\ response = Ok(<<"Phone number status updated to ", AVAILABLE>>)

\* C38: an INACTIVE number is never bound to a group by create_group and
\* never selects the target group of an inbound SMS: the pool query returns
\* AVAILABLE rows only, the row create_group writes is not INACTIVE, and a
\* webhook addressed to an INACTIVE number gets no destination routing.
C38_InactiveNeverUsed ==
    [][/\ \A s \in DOMAIN session :
              /\ (assign_phone_query(s) /\ session'[s].available_phone # None)
                 => phone_numbers[session'[s].available_phone].status = AVAILABLE
              /\ (assign_phone_claim(s)
                      /\ session[s].available_phone \in PhoneIds)
                 => phone_numbers[session[s].available_phone].status # INACTIVE
       /\ \A i \in PhoneIds :
              (/\ WebhookAnswered
               /\ request'.To = phone_numbers[i].phone_number
               /\ phone_numbers[i].status = INACTIVE)
              => /\ response'.message[1] # "You are not a member of the '"
                 /\ \A k \in DOMAIN sent' : sent'[k].call.from_ # request'.To]_vars

----------------------------------------------------------------------------
(* Properties of the web send_message endpoint *)

\* the ids a POST /api/groups/{group_id}/messages is made with
SendMessageInputs ==
    (1..(MaxFanoutGroups + 1)) \X (1..4) \X Contents

\* the request is refused: the group or the author is not in its table, or
\* there is no membership row of the author in the group
Refused(group_id, user_id) ==
    \/ group_id \notin DOMAIN groups
    \/ user_id \notin DOMAIN users
    \/ ~BagIn(<<user_id, group_id>>, user_groups)

\* C39: send_message answers 404 for an unknown group or an unknown user and
\* 403 for an author who is not a member of the group, and in these three
\* cases stores no Message and makes no transport call; a Message is stored,
\* and a transport call made, only for an author who exists and is a member
\* of the group.
C39_SendMessageRejects ==
    [][\A in \in SendMessageInputs :
           LET group_id == in[1]
               user_id == in[2]
           IN  (request' = NoRequest /\ send_message(group_id, user_id, in[3]))
               =>  /\ group_id \notin DOMAIN groups => response'.status = 404
                   /\ (group_id \in DOMAIN groups /\ user_id \notin DOMAIN users)
                          => response'.status = 404
                   /\ (/\ group_id \in DOMAIN groups
                       /\ user_id \in DOMAIN users
                       /\ ~BagIn(<<user_id, group_id>>, user_groups))
                          => response'.status = 403
                   /\ Refused(group_id, user_id)
                          => messages' = messages /\ sent' = <<>>
                   /\ (messages' # messages \/ sent' # <<>>)
                          => ~Refused(group_id, user_id)
                   /\ ~Refused(group_id, user_id)
                          => messages' = Append(messages,
                                               [content |-> in[3],
                                                user_id |-> user_id,
                                                group_id |-> group_id])]_vars

\* a non-member has just been refused with 403: nothing stored, nothing sent
C39_Witness ==
    /\ response = HTTPException(403, "User not in group")
    /\ request = NoRequest
    /\ messages = <<>>
    /\ sent = <<>>

====
